---- MODULE Spec2Model ----
(***************************************************************************)
(* Model of the yield-farming simulation workflow: the JSON-file workflow  *)
(* manager (workflow_manager.js, first variant, lines 1-194) and the       *)
(* strategy functions it imports (fetchNewIncentivePools,                  *)
(* validateAndFilterNewPools, enrichPoolData, selectOptimalPools,          *)
(* fetchPoolById).                                                         *)
(*                                                                         *)
(* Conventions.                                                            *)
(*  - Time is Date.now() in milliseconds.                                  *)
(*  - A JavaScript property that is absent or undefined is the string      *)
(*    Undefined when it holds an identifier, and 0 when it holds a number  *)
(*    that the code only ever reads through a falsy test                   *)
(*    (x || 0, x && ..., !x): apyReward, sigma, tvlGrowthPct1d,            *)
(*    firstSeenAt, exitTimestamp.                                          *)
(*  - apy and tvlUsd of a pool record are numbers, taken as integers; the  *)
(*    reward ratio apyReward / max(apy, 1) is compared by                  *)
(*    cross-multiplication.  The pool id of a record may be missing.       *)
(*  - symbol and project are carried by the code from record to record     *)
(*    and only logged; the model keeps symbol on pool records (the keyword *)
(*    signal reads it) and drops both from watchlist entries and positions.*)
(***************************************************************************)
EXTENDS Integers, Sequences, FiniteSets, TLC

\* ------------------------------------------------------------------ time
MINUTE == 60 * 1000
HOUR   == 60 * MINUTE
DAY    == 24 * HOUR

HOLD_DURATION_MS     == 24 * 60 * 60 * 1000
RUN_INTERVAL_MS      == 30 * 60 * 1000
MAX_ACTIVE_POSITIONS == 5
MIN_WATCHLIST_AGE_MS == 15 * 60 * 1000
MAX_RISK_SCORE       == 7
APY_DROP_THRESHOLD   == 50
REBALANCE_MARGIN     == 20
WATCHLIST_TOP_N      == 10
WATCHLIST_MAX_AGE_MS == 7 * 24 * 60 * 60 * 1000
ENRICH_TOP_N         == 20

\* ------------------------------------------------------------- config.js
defaultConfig ==
  [ minAPY |-> 50, minTVL |-> 100000, minRewardAPY |-> 20,
    minRewardAPYRatioNum |-> 1, minRewardAPYRatioDen |-> 2,           \* 0.5
    newPoolAgeDays |-> 7, highAPYThreshold |-> 200, mediumAPYThreshold |-> 80,
    lowTVLThreshold |-> 500000,
    highRewardRatioThresholdNum |-> 4, highRewardRatioThresholdDen |-> 5, \* 0.8
    tvlGrowthPctThreshold |-> 50, volatilitySigmaThreshold |-> 2,
    maxRiskScore |-> 7, maxPerToken |-> 2, maxTotal |-> 5,
    newPoolMinAgeHrs |-> 1, newPoolMaxAgeHrs |-> 4 ]

\* ------------------------------------------------------------ JS helpers
Undefined == "undefined"
Null      == [pool |-> "null"]

Max(a, b) == IF a > b THEN a ELSE b
Min(a, b) == IF a < b THEN a ELSE b

\* Array.prototype.slice(0, n): a negative n counts from the end
Slice(s, n) == SubSeq(s, 1, IF n >= 0 THEN Min(n, Len(s)) ELSE Max(Len(s) + n, 0))

\* Array.prototype.filter
RECURSIVE Filter(_, _)
Filter(s, keep) ==
  IF s = <<>> THEN <<>>
  ELSE IF keep[1] THEN <<Head(s)>> \o Filter(Tail(s), Tail(keep))
       ELSE Filter(Tail(s), Tail(keep))

\* Array.prototype.sort((a, b) => b[f] - a[f]): stable, descending by field f
RECURSIVE InsertDesc(_, _, _)
InsertDesc(x, sorted, f) ==
  IF sorted = <<>> THEN <<x>>
  ELSE IF Head(sorted)[f] >= x[f]
       THEN <<Head(sorted)>> \o InsertDesc(x, Tail(sorted), f)
       ELSE <<x>> \o sorted

RECURSIVE SortDesc(_, _)
SortDesc(s, f) ==
  IF s = <<>> THEN <<>>
  ELSE InsertDesc(s[Len(s)], SortDesc(SubSeq(s, 1, Len(s) - 1), f), f)

\* obj[key] of a JavaScript object: undefined when the key is absent
Prop(obj, key) == IF key \in DOMAIN obj THEN obj[key] ELSE Undefined

\* --------------------------------------------- strategy functions (pure)
\* const incentivePools = allPools.filter(...)
IsIncentivePool(pool, config) ==
  /\ pool.chain = "Solana"
  /\ ~(pool.apy < config.minAPY)
  /\ ~(pool.tvlUsd < config.minTVL)
  /\ ~(pool.apyReward < config.minRewardAPY)
  /\ pool.apyReward * config.minRewardAPYRatioDen
       >= config.minRewardAPYRatioNum * Max(pool.apy, 1)

\* CONFIG_HELPERS.isUltraFresh
isUltraFresh(firstSeenAt, config, now) ==
  /\ firstSeenAt # 0
  /\ now - firstSeenAt >= config.newPoolMinAgeHrs * HOUR
  /\ now - firstSeenAt <= config.newPoolMaxAgeHrs * HOUR

\* symbols of the modelled records in which one of the keywords
\* 'new', 'launch', 'genesis', 'fresh' occurs (case-insensitively)
KeywordSymbols == {"NEW-USDC"}

\* the isNew flag with the reward-ratio signal not tied to the medium APY
ClassifyIsNewRatioAlone(pool, config, now) ==
  \/ isUltraFresh(pool.firstSeenAt, config, now)
  \/ (pool.firstSeenAt # 0 /\ now - pool.firstSeenAt < config.newPoolAgeDays * DAY)
  \/ pool.apy > config.highAPYThreshold
  \/ (pool.tvlUsd < config.lowTVLThreshold /\ pool.apy > config.mediumAPYThreshold)
  \/ pool.apyReward * config.highRewardRatioThresholdDen
        > config.highRewardRatioThresholdNum * Max(pool.apy, 1)
  \/ (pool.tvlGrowthPct1d # 0 /\ pool.tvlGrowthPct1d > config.tvlGrowthPctThreshold)
  \/ pool.symbol \in KeywordSymbols

\* the isNew flag computed in the forEach of fetchNewIncentivePools
ClassifyIsNew(pool, config, now) ==
  \/ isUltraFresh(pool.firstSeenAt, config, now)
  \/ (pool.firstSeenAt # 0 /\ now - pool.firstSeenAt < config.newPoolAgeDays * DAY)
  \/ pool.apy > config.highAPYThreshold
  \/ (pool.tvlUsd < config.lowTVLThreshold /\ pool.apy > config.mediumAPYThreshold)
  \/ ( /\ pool.apyReward * config.highRewardRatioThresholdDen
            > config.highRewardRatioThresholdNum * Max(pool.apy, 1)
       /\ pool.apy > config.mediumAPYThreshold )
  \/ (pool.tvlGrowthPct1d # 0 /\ pool.tvlGrowthPct1d > config.tvlGrowthPctThreshold)
  \/ pool.symbol \in KeywordSymbols

\* fetchNewIncentivePools applied to the list fetchAllLlamaPools returned
FetchNewIncentivePools(allPools, config, now) ==
  LET incentive == Filter(allPools, [i \in 1..Len(allPools) |-> IsIncentivePool(allPools[i], config)])
      records   == [i \in 1..Len(incentive) |->
                      [isNew |-> ClassifyIsNew(incentive[i], config, now)] @@ incentive[i]]
      newPools    == Filter(records, [i \in 1..Len(records) |-> records[i].isNew])
      established == Filter(records, [i \in 1..Len(records) |-> ~records[i].isNew])
  IN  SortDesc(newPools, "apy") \o SortDesc(established, "apy")

\* new Map(allPools.map(p => [p.pool, p])).get(key): the last record wins
RECURSIVE MapGet(_, _)
MapGet(allPools, key) ==
  IF allPools = <<>> THEN Null
  ELSE IF allPools[Len(allPools)].pool = key THEN allPools[Len(allPools)]
       ELSE MapGet(SubSeq(allPools, 1, Len(allPools) - 1), key)

\* the lookup falling back on a record kept from an earlier fetch when the
\* fetched list has none: map.get(p.pool) || map.get(p.address) || lastKnown
ValidateLookupLastKnown(p, allPools) ==
  IF MapGet(allPools, Prop(p, "pool")) # Null
  THEN MapGet(allPools, Prop(p, "pool"))
  ELSE IF MapGet(allPools, Prop(p, "address")) # Null
       THEN MapGet(allPools, Prop(p, "address"))
       ELSE [pool |-> Undefined, symbol |-> "NEW-USDC", chain |-> "Solana", apy |-> 130,
             tvlUsd |-> 200000, apyReward |-> 80, rewardTokens |-> <<"T1">>,
             exposure |-> "single", predictedClass |-> Undefined, ilRisk |-> Undefined,
             sigma |-> 0, tvlGrowthPct1d |-> 0, firstSeenAt |-> 0, isNew |-> TRUE]

\* const data = map.get(p.pool) || map.get(p.address)
ValidateLookup(p, allPools) ==
  IF MapGet(allPools, Prop(p, "pool")) # Null
  THEN MapGet(allPools, Prop(p, "pool"))
  ELSE MapGet(allPools, Prop(p, "address"))

\* the checks of validateAndFilterNewPools on the record found
PassesValidation(data, config) ==
  /\ data.chain = "Solana"
  /\ ~(data.apy < config.minAPY)
  /\ ~(data.tvlUsd < config.minTVL)
  /\ ~(data.apyReward < config.minRewardAPY)
  /\ ~(data.apyReward * config.minRewardAPYRatioDen
         < config.minRewardAPYRatioNum * Max(data.apy, 1))

RECURSIVE ValidateEach(_, _, _)
ValidateEach(detectedPools, allPools, config) ==
  IF detectedPools = <<>> THEN <<>>
  ELSE LET p    == Head(detectedPools)
           data == ValidateLookup(p, allPools)
           rest == ValidateEach(Tail(detectedPools), allPools, config)
       IN  IF data = Null THEN rest
           ELSE IF ~PassesValidation(data, config) THEN rest
           ELSE <<[data EXCEPT !.firstSeenAt =
                     IF "firstSeenAt" \in DOMAIN p THEN p.firstSeenAt ELSE 0]>> \o rest

validateAndFilterNewPools(detectedPools, allPools, config) ==
  SortDesc(ValidateEach(detectedPools, allPools, config), "apy")

\* key in obj (for a number: the property is there and is a number)
Has(obj, key) == key \in DOMAIN obj

\* calculateRiskScore returning risk without Math.min(risk, 10)
calculateRiskScoreUncapped(pool, config) ==
  LET apyReward == IF Has(pool, "apyReward") THEN pool.apyReward ELSE 0
      risk ==
        (IF Has(pool, "apy") /\ pool.apy > 100 THEN 3 ELSE 0)
      + (IF Has(pool, "tvlUsd") /\ pool.tvlUsd < 100000 THEN 2 ELSE 0)
      + (IF /\ Has(pool, "apy") /\ Has(config, "highRewardRatioThresholdNum")
            /\ apyReward * config.highRewardRatioThresholdDen
                 > config.highRewardRatioThresholdNum * Max(pool.apy, 1) THEN 2 ELSE 0)
      + (IF Prop(pool, "exposure") # "single" THEN 1 ELSE 0)
      + (IF Prop(pool, "predictedClass") = "Down" THEN 2 ELSE 0)
      + (IF Prop(pool, "ilRisk") = "yes" THEN 1 ELSE 0)
      + (IF /\ Has(pool, "sigma") /\ Has(config, "volatilitySigmaThreshold")
            /\ pool.sigma > config.volatilitySigmaThreshold THEN 1 ELSE 0)
  IN  risk

\* calculateRiskScore with the reward ratio compared by >= with the threshold
calculateRiskScoreRatioAtLeast(pool, config) ==
  LET apyReward == IF Has(pool, "apyReward") THEN pool.apyReward ELSE 0
      risk ==
        (IF Has(pool, "apy") /\ pool.apy > 100 THEN 3 ELSE 0)
      + (IF Has(pool, "tvlUsd") /\ pool.tvlUsd < 100000 THEN 2 ELSE 0)
      + (IF /\ Has(pool, "apy") /\ Has(config, "highRewardRatioThresholdNum")
            /\ apyReward * config.highRewardRatioThresholdDen
                 >= config.highRewardRatioThresholdNum * Max(pool.apy, 1) THEN 2 ELSE 0)
      + (IF Prop(pool, "exposure") # "single" THEN 1 ELSE 0)
      + (IF Prop(pool, "predictedClass") = "Down" THEN 2 ELSE 0)
      + (IF Prop(pool, "ilRisk") = "yes" THEN 1 ELSE 0)
      + (IF /\ Has(pool, "sigma") /\ Has(config, "volatilitySigmaThreshold")
            /\ pool.sigma > config.volatilitySigmaThreshold THEN 1 ELSE 0)
  IN  Min(risk, 10)

\* calculateRiskScore as an earlier version of the strategy module has it
\* (functional_strategy.js, lines 169-178): no config, the ratio
\* apyReward / apy against 0.8, one point for every pool ("brand new
\* pool"), no prediction, impermanent-loss or sigma term
calculateRiskScoreFlatNewPoolRisk(pool, config) ==
  LET risk ==
        (IF Has(pool, "apy") /\ pool.apy > 100 THEN 3 ELSE 0)
      + (IF Has(pool, "tvlUsd") /\ pool.tvlUsd < 100000 THEN 2 ELSE 0)
      + (IF /\ Has(pool, "apy") /\ Has(pool, "apyReward") /\ pool.apy > 0
            /\ pool.apyReward * 5 > 4 * pool.apy THEN 2 ELSE 0)
      + (IF Prop(pool, "exposure") # "single" THEN 1 ELSE 0)
      + 1
  IN  Min(risk, 10)

\* calculateRiskScore(pool, config) of the strategy module (part_011, lines
\* 186-196).  A comparison with an operand that is undefined or NaN is false:
\* pool.apy > 100, pool.tvlUsd < 100_000, pool.sigma > threshold, and the
\* ratio test, in which Math.max(undefined, 1) is NaN and a missing
\* threshold is undefined; pool.apyReward || 0 reads a missing reward as 0.
\* predictedClass stands for pool.predictions?.predictedClass.
calculateRiskScore(pool, config) ==
  LET apyReward == IF Has(pool, "apyReward") THEN pool.apyReward ELSE 0
      risk ==
        (IF Has(pool, "apy") /\ pool.apy > 100 THEN 3 ELSE 0)
      + (IF Has(pool, "tvlUsd") /\ pool.tvlUsd < 100000 THEN 2 ELSE 0)
      + (IF /\ Has(pool, "apy") /\ Has(config, "highRewardRatioThresholdNum")
            /\ apyReward * config.highRewardRatioThresholdDen
                 > config.highRewardRatioThresholdNum * Max(pool.apy, 1) THEN 2 ELSE 0)
      + (IF Prop(pool, "exposure") # "single" THEN 1 ELSE 0)
      + (IF Prop(pool, "predictedClass") = "Down" THEN 2 ELSE 0)
      + (IF Prop(pool, "ilRisk") = "yes" THEN 1 ELSE 0)
      + (IF /\ Has(pool, "sigma") /\ Has(config, "volatilitySigmaThreshold")
            /\ pool.sigma > config.volatilitySigmaThreshold THEN 1 ELSE 0)
  IN  Min(risk, 10)

\* round(10^6 * log10(n)) at the arguments tvlUsd + 1 of the modelled records
Log10Micro(n) ==
  CASE n = 1      -> 0
    [] n = 50001  -> 4698979
    [] n = 200001 -> 5301032

\* calculateProfitPotential with sampleStats {apyMin 0, apyMax 1000, tvlMax 10^7},
\* scaled by 7 * 10^7: 0.6 * apy / 1000 + 0.3 * log10(tvl + 1) / 7; the
\* modelled records carry no volumeUsd1d, so the volume term is 0
calculateProfitPotential(pool) ==
  42000 * pool.apy + 3 * Log10Micro(pool.tvlUsd + 1)

enrichPoolData(pools, config) ==
  [i \in 1..Len(pools) |->
     [riskScore |-> calculateRiskScore(pools[i], config),
      profitPotential |-> calculateProfitPotential(pools[i])] @@ pools[i]]

\* p.rewardTokens.length > 0 ? p.rewardTokens[0] : 'none'
TokenOf(p) == IF Len(p.rewardTokens) > 0 THEN p.rewardTokens[1] ELSE "none"

\* the keys of byToken in insertion order (Object.values order for
\* keys that are not integer-like)
RECURSIVE TokenOrder(_)
TokenOrder(candidates) ==
  IF candidates = <<>> THEN <<>>
  ELSE LET init == TokenOrder(SubSeq(candidates, 1, Len(candidates) - 1))
           tok  == TokenOf(candidates[Len(candidates)])
       IN  IF \E i \in 1..Len(init) : init[i] = tok THEN init ELSE Append(init, tok)

\* the per-token loop without .slice(0, config.maxPerToken)
RECURSIVE SelectPerTokenNoLimit(_, _, _)
SelectPerTokenNoLimit(toks, candidates, config) ==
  IF toks = <<>> THEN <<>>
  ELSE LET arr == Filter(candidates,
                         [i \in 1..Len(candidates) |-> TokenOf(candidates[i]) = Head(toks)])
       IN  SortDesc(arr, "profitPotential")
             \o SelectPerTokenNoLimit(Tail(toks), candidates, config)

RECURSIVE SelectPerToken(_, _, _)
SelectPerToken(toks, candidates, config) ==
  IF toks = <<>> THEN <<>>
  ELSE LET arr == Filter(candidates,
                         [i \in 1..Len(candidates) |-> TokenOf(candidates[i]) = Head(toks)])
       IN  Slice(SortDesc(arr, "profitPotential"), config.maxPerToken)
             \o SelectPerToken(Tail(toks), candidates, config)

\* selectOptimalPools truncating the merged list to maxTotal before sorting it
selectOptimalPoolsTruncateFirst(enrichedPools, config) ==
  LET candidates == Filter(enrichedPools,
                           [i \in 1..Len(enrichedPools) |->
                              enrichedPools[i].riskScore <= config.maxRiskScore])
      selected   == SelectPerToken(TokenOrder(candidates), candidates, config)
  IN  SortDesc(Slice(selected, config.maxTotal), "profitPotential")

selectOptimalPools(enrichedPools, config) ==
  LET candidates == Filter(enrichedPools,
                           [i \in 1..Len(enrichedPools) |->
                              enrichedPools[i].riskScore <= config.maxRiskScore])
      selected   == SelectPerToken(TokenOrder(candidates), candidates, config)
  IN  Slice(SortDesc(selected, "profitPotential"), config.maxTotal)

\* fetchPoolById applied to the list fetchAllLlamaPools returned
RECURSIVE FindPool(_, _)
FindPool(allPools, poolId) ==
  IF allPools = <<>> THEN Null
  ELSE IF Head(allPools).pool = poolId \/ Prop(Head(allPools), "address") = poolId
       THEN Head(allPools)
       ELSE FindPool(Tail(allPools), poolId)

fetchPoolById(allPools, poolId) ==
  LET pool == FindPool(allPools, poolId)
  IN  IF pool = Null THEN Null
      ELSE [riskScore |-> calculateRiskScore(pool, defaultConfig)] @@ pool

\* ------------------------------------------------------- yield-calculator.js
PRINCIPAL_USD == 1000

\* calculateYield(position, exitData).totalReturn, in cents:
\*   Math.round((PRINCIPAL_USD * (1 + avgApy / 100 / 365) ^ holdDays - PRINCIPAL_USD) * 100)
\* with avgApy = (entryApy + exitApy) / 2 and holdDays = hold / DAY.  The
\* power is expanded as the binomial series in x = avgApy / 36500 up to the
\* third order, in units of 1/10000 cent, for holding times that are whole
\* quarters of an hour; up to three and a half days and at the APYs of the
\* modelled records the result is the one of the floating-point computation.
\* calculateYield with the holding time counted from the epoch instead of
\* from position.entryTimestamp
calculateYieldHoldFromEpoch(position, exitData) ==
  LET q  == exitData.timestamp \div (15 * MINUTE)
      a2 == position.entryApy + exitData.exitApy
      n  == 25 * q * a2
      t1 == (n \div 1752) * 10000 + ((n % 1752) * 10000) \div 1752
      t2 == ((((t1 \div 96) * (q - 96)) \div 1460) * a2) \div 100
      t3 == ((((t2 \div 96) * (q - 192)) \div 2190) * a2) \div 100
  IN  [ principal |-> PRINCIPAL_USD, entryApy |-> position.entryApy,
        exitApy |-> exitData.exitApy,
        holdDays |-> (200 * q + 96) \div 192,
        totalReturn |-> (t1 + t2 + t3 + 5000) \div 10000 ]

\* holdDays is Math.round(holdDays * 100), the holding time in hundredths of
\* a day
calculateYield(position, exitData) ==
  LET q  == (exitData.timestamp - position.entryTimestamp) \div (15 * MINUTE)
      a2 == position.entryApy + exitData.exitApy
      n  == 25 * q * a2
      t1 == (n \div 1752) * 10000 + ((n % 1752) * 10000) \div 1752
      t2 == ((((t1 \div 96) * (q - 96)) \div 1460) * a2) \div 100
      t3 == ((((t2 \div 96) * (q - 192)) \div 2190) * a2) \div 100
  IN  [ principal |-> PRINCIPAL_USD, entryApy |-> position.entryApy,
        exitApy |-> exitData.exitApy,
        holdDays |-> (200 * q + 96) \div 192,
        totalReturn |-> (t1 + t2 + t3 + 5000) \div 10000 ]

\* ------------------------------------------------------- bounds and inputs
MaxStarts   == 2    \* workflowLoop invocations started in one behaviour
MaxClockSteps == 2  \* steps the clock makes, each a quarter of an hour or a day
MaxPools    == 3    \* length of the list handed to a direct call of selectOptimalPools

T0 == 10 * DAY      \* Date.now() at process start

Pool(pool, symbol, chain, apy, tvlUsd, apyReward, exposure, firstSeenAt) ==
  [ pool |-> pool, symbol |-> symbol, chain |-> chain, apy |-> apy, tvlUsd |-> tvlUsd,
    apyReward |-> apyReward, rewardTokens |-> <<"T1">>, exposure |-> exposure,
    predictedClass |-> Undefined, ilRisk |-> Undefined, sigma |-> 0,
    tvlGrowthPct1d |-> 0, firstSeenAt |-> firstSeenAt ]

\* The pool records the data source returns in the model.  A record whose
\* pool id is missing has pool = Undefined.
P1Healthy == Pool("p1", "RAY-USDC", "Solana", 100, 200000, 60, "single", 0)
P1Dropped == Pool("p1", "RAY-USDC", "Solana", 50, 200000, 30, "single", 0)
P1Risky   == Pool("p1", "RAY-USDC", "Solana", 130, 50000, 120, "multi", 0)
NoIdHigh  == Pool(Undefined, "NEW-USDC", "Solana", 130, 200000, 80, "single", T0 - HOUR)
NoIdLow   == Pool(Undefined, "ORCA-USDC", "Solana", 60, 200000, 40, "single", 0)
NoIdOtherChain == Pool(Undefined, "ETH-USDC", "Ethereum", 130, 200000, 80, "single", 0)

\* What the data source serves during one run: each feed is the set of
\* lists a call of fetchAllLlamaPools can return in that run.  FeedP1 serves
\* pool p1 in three conditions (P1Risky is below the TVL floor, so that
\* fetchNewIncentivePools returns nothing for it); FeedNoId serves records
\* without a pool id, or nothing.
FeedP1    == { <<P1Healthy>>, <<P1Dropped>>, <<P1Risky>> }
FeedNoId  == { <<>>, <<NoIdHigh>>, <<NoIdLow>>, <<NoIdOtherChain>> }
Feeds     == { FeedP1, FeedNoId }

\* -------------------------------------------------------------- positions
Position(poolId, entryTimestamp, entryApy, entryRisk, isNew) ==
  [ poolId |-> poolId, entryTimestamp |-> entryTimestamp, entryApy |-> entryApy,
    entryRisk |-> entryRisk, isNew |-> isNew,
    status |-> Undefined, exitTimestamp |-> 0, exitReason |-> Undefined ]

\* The persisted portfolio at process start is an input: whatever an earlier
\* run left in active_portfolio.json.  The model starts from an empty
\* portfolio or from a full one.
SeedPositions ==
  << Position("p2", T0 - HOUR, 60, 0, FALSE), Position("p3", T0 - HOUR, 70, 0, FALSE),
     Position("p4", T0 - HOUR, 80, 0, FALSE), Position("p1", T0 - HOUR, 100, 0, TRUE),
     Position("p5", T0 - HOUR, 90, 0, TRUE) >>

SeedCounts == {0, MAX_ACTIVE_POSITIONS}

\* ------------------------------------------------ workflow_manager.js (pure)
EmptyPortfolio == [active |-> <<>>, exited |-> <<>>]

\* JSON.stringify / JSON.parse of the state files: a property whose value is
\* undefined is not written, and reading a property that is not in the file
\* yields undefined
Absent == "absent"
StringifyValue(v) == IF v = Undefined THEN Absent ELSE v
ParseValue(v)     == IF v = Absent THEN Undefined ELSE v
StringifyPosition(p) ==
  [p EXCEPT !.poolId = StringifyValue(@), !.status = StringifyValue(@),
            !.exitReason = StringifyValue(@)]
ParsePosition(p) ==
  [p EXCEPT !.poolId = ParseValue(@), !.status = ParseValue(@),
            !.exitReason = ParseValue(@)]
StringifyPortfolio(pf) ==
  [active |-> [i \in 1..Len(pf.active) |-> StringifyPosition(pf.active[i])],
   exited |-> [i \in 1..Len(pf.exited) |-> StringifyPosition(pf.exited[i])]]
ParsePortfolio(file) ==
  [active |-> [i \in 1..Len(file.active) |-> ParsePosition(file.active[i])],
   exited |-> [i \in 1..Len(file.exited) |-> ParsePosition(file.exited[i])]]
StringifyWatchlist(wl) == [i \in 1..Len(wl) |-> [wl[i] EXCEPT !.poolId = StringifyValue(@)]]
ParseWatchlist(file)   == [i \in 1..Len(file) |-> [file[i] EXCEPT !.poolId = ParseValue(@)]]

\* apyDrop >= APY_DROP_THRESHOLD with
\* apyDrop = ((pos.entryApy - current.apy) / pos.entryApy) * 100
ApyExit(pos, current) ==
  IF pos.entryApy > 0
  THEN (pos.entryApy - current.apy) * 100 >= APY_DROP_THRESHOLD * pos.entryApy
  ELSE IF pos.entryApy = 0
       THEN pos.entryApy - current.apy > 0
       ELSE (pos.entryApy - current.apy) * 100 <= APY_DROP_THRESHOLD * pos.entryApy

\* checkForExits storing the time held (now - pos.entryTimestamp, the
\* numerator of hoursHeld) as exitTimestamp
ExitIterationHoldAsTimestamp(acc, pos, current, now) ==
  IF current = Null
  THEN [acc EXCEPT !.stillActive = Append(@, pos)]
  ELSE LET highRisk == current.riskScore > MAX_RISK_SCORE
           timeExit == now - pos.entryTimestamp >= HOLD_DURATION_MS
           apyExit  == ApyExit(pos, current)
       IN  IF timeExit \/ apyExit \/ highRisk
           THEN LET reason == IF timeExit THEN "time_exit"
                              ELSE IF apyExit THEN "apy_drop" ELSE "risk_exit"
                IN  [acc EXCEPT !.exited = Append(@,
                       [pos EXCEPT !.status = "exited",
                                   !.exitTimestamp = now - pos.entryTimestamp,
                                   !.exitReason = reason])]
           ELSE [acc EXCEPT !.stillActive = Append(@, pos)]

\* checkForExits with the reason chosen as apyExit ? 'apy_drop' : timeExit ? ...
ExitIterationDropFirst(acc, pos, current, now) ==
  IF current = Null
  THEN [acc EXCEPT !.stillActive = Append(@, pos)]
  ELSE LET highRisk == current.riskScore > MAX_RISK_SCORE
           timeExit == now - pos.entryTimestamp >= HOLD_DURATION_MS
           apyExit  == ApyExit(pos, current)
       IN  IF timeExit \/ apyExit \/ highRisk
           THEN LET reason == IF apyExit THEN "apy_drop"
                              ELSE IF timeExit THEN "time_exit" ELSE "risk_exit"
                IN  [acc EXCEPT !.exited = Append(@,
                       [pos EXCEPT !.status = "exited", !.exitTimestamp = now,
                                   !.exitReason = reason])]
           ELSE [acc EXCEPT !.stillActive = Append(@, pos)]

\* checkForExits with the time condition tested before the !current guard
ExitIterationTimeBeforeGuard(acc, pos, current, now) ==
  LET timeExit == now - pos.entryTimestamp >= HOLD_DURATION_MS
      exit(reason) == [acc EXCEPT !.exited = Append(@,
                         [pos EXCEPT !.status = "exited", !.exitTimestamp = now,
                                     !.exitReason = reason])]
  IN  IF timeExit THEN exit("time_exit")
      ELSE IF current = Null THEN [acc EXCEPT !.stillActive = Append(@, pos)]
      ELSE IF ApyExit(pos, current) THEN exit("apy_drop")
      ELSE IF current.riskScore > MAX_RISK_SCORE THEN exit("risk_exit")
      ELSE [acc EXCEPT !.stillActive = Append(@, pos)]

\* one iteration of the for loop of checkForExits on position pos, with
\* current the value fetchPoolById resolved to; acc = [stillActive, exited]
ExitIteration(acc, pos, current, now) ==
  IF current = Null
  THEN [acc EXCEPT !.stillActive = Append(@, pos)]
  ELSE LET highRisk == current.riskScore > MAX_RISK_SCORE
           timeExit == now - pos.entryTimestamp >= HOLD_DURATION_MS
           apyExit  == ApyExit(pos, current)
       IN  IF timeExit \/ apyExit \/ highRisk
           THEN LET reason == IF timeExit THEN "time_exit"
                              ELSE IF apyExit THEN "apy_drop" ELSE "risk_exit"
                IN  [acc EXCEPT !.exited = Append(@,
                       [pos EXCEPT !.status = "exited", !.exitTimestamp = now,
                                   !.exitReason = reason])]
           ELSE [acc EXCEPT !.stillActive = Append(@, pos)]

\* the for loop of updateWatchlist over detected.slice(0, 10); map is built
\* from the watchlist before the loop
RECURSIVE WatchlistInsert(_, _, _, _)
WatchlistInsert(watchlist, map, detected, now) ==
  IF detected = <<>> THEN watchlist
  ELSE LET pool == Head(detected)
       IN  IF ~(\E i \in 1..Len(map) : map[i].poolId = pool.pool)
           THEN WatchlistInsert(
                  Append(watchlist,
                         [poolId |-> pool.pool,
                          firstSeen |-> IF pool.firstSeenAt # 0 THEN pool.firstSeenAt ELSE now,
                          isNew |-> pool.isNew]),
                  map, Tail(detected), now)
           ELSE WatchlistInsert(watchlist, map, Tail(detected), now)

\* the pool ids for which the loop of updateWatchlist pushes an entry
InsertedIds(watchlist, detected) ==
  { Slice(detected, WATCHLIST_TOP_N)[i].pool : i \in 1..Len(Slice(detected, WATCHLIST_TOP_N)) }
    \ { watchlist[i].poolId : i \in 1..Len(watchlist) }

\* the pool ids of the entries that the filter of line 111 removes
PrunedIds(watchlist, detected, now) ==
  LET inserted == WatchlistInsert(watchlist, watchlist, Slice(detected, WATCHLIST_TOP_N), now)
  IN  { inserted[i].poolId : i \in { j \in 1..Len(inserted) :
                                        ~(inserted[j].firstSeen > now - WATCHLIST_MAX_AGE_MS) } }

\* updateWatchlist returning the list without the filter of line 111
updateWatchlistKeepAll(watchlist, detected, now) ==
  WatchlistInsert(watchlist, watchlist, Slice(detected, WATCHLIST_TOP_N), now)

\* updateWatchlist after its fetch resolved to detected
updateWatchlist(watchlist, detected, now) ==
  LET inserted == WatchlistInsert(watchlist, watchlist, Slice(detected, WATCHLIST_TOP_N), now)
      cutoff   == now - WATCHLIST_MAX_AGE_MS
  IN  Filter(inserted, [i \in 1..Len(inserted) |-> inserted[i].firstSeen > cutoff])

\* const matured = watchlist.filter(w => now - w.firstSeen >= MIN_WATCHLIST_AGE_MS)
Matured(watchlist, now) ==
  Filter(watchlist, [i \in 1..Len(watchlist) |-> now - watchlist[i].firstSeen >= MIN_WATCHLIST_AGE_MS])

\* portfolio.active.reduce((min, p) => p.entryApy < min.entryApy ? p : min, active[0])
RECURSIVE WorstOf(_, _)
WorstOf(active, min) ==
  IF active = <<>> THEN min
  ELSE WorstOf(Tail(active), IF Head(active).entryApy < min.entryApy THEN Head(active) ELSE min)

\* the rebalancing loop without line 151 (the evicted position stays in active)
RECURSIVE RebalanceKeepWorst(_, _, _)
RebalanceKeepWorst(st, optimal, now) ==
  IF optimal = <<>> THEN st
  ELSE IF Len(st.active) < MAX_ACTIVE_POSITIONS THEN st
  ELSE LET cand  == Head(optimal)
           worst == WorstOf(st.active, st.active[1])
       IN  IF cand.apy > worst.entryApy + REBALANCE_MARGIN
           THEN RebalanceKeepWorst(
                  [active |-> st.active,
                   exited |-> Append(st.exited,
                                     [worst EXCEPT !.status = "exited", !.exitTimestamp = now,
                                                   !.exitReason = "rebalanced"]),
                   slots  |-> st.slots + 1],
                  Tail(optimal), now)
           ELSE RebalanceKeepWorst(st, Tail(optimal), now)

\* the rebalancing loop evicting the position entered last, not the one
\* with the lowest entryApy
RECURSIVE RebalanceEvictLast(_, _, _)
RebalanceEvictLast(st, optimal, now) ==
  IF optimal = <<>> THEN st
  ELSE IF Len(st.active) < MAX_ACTIVE_POSITIONS THEN st
  ELSE LET cand  == Head(optimal)
           worst == st.active[Len(st.active)]
       IN  IF cand.apy > worst.entryApy + REBALANCE_MARGIN
           THEN RebalanceEvictLast(
                  [active |-> Filter(st.active,
                                     [i \in 1..Len(st.active) |-> st.active[i].poolId # worst.poolId]),
                   exited |-> Append(st.exited,
                                     [worst EXCEPT !.status = "exited", !.exitTimestamp = now,
                                                   !.exitReason = "rebalanced"]),
                   slots  |-> st.slots + 1],
                  Tail(optimal), now)
           ELSE RebalanceEvictLast(st, Tail(optimal), now)

\* the rebalancing loop of investFromWatchlist; st = [active, exited, slots]
RECURSIVE Rebalance(_, _, _)
Rebalance(st, optimal, now) ==
  IF optimal = <<>> THEN st
  ELSE IF Len(st.active) < MAX_ACTIVE_POSITIONS THEN st
  ELSE LET cand  == Head(optimal)
           worst == WorstOf(st.active, st.active[1])
       IN  IF cand.apy > worst.entryApy + REBALANCE_MARGIN
           THEN Rebalance(
                  [active |-> Filter(st.active,
                                     [i \in 1..Len(st.active) |-> st.active[i].poolId # worst.poolId]),
                   exited |-> Append(st.exited,
                                     [worst EXCEPT !.status = "exited", !.exitTimestamp = now,
                                                   !.exitReason = "rebalanced"]),
                   slots  |-> st.slots + 1],
                  Tail(optimal), now)
           ELSE Rebalance(st, Tail(optimal), now)

\* the entry loop without the test of line 158 (already held)
RECURSIVE EnterPositionsNoHeldCheck(_, _, _)
EnterPositionsNoHeldCheck(active, remaining, now) ==
  IF remaining = <<>> THEN active
  ELSE LET cand == Head(remaining)
       IN  EnterPositionsNoHeldCheck(
             Append(active, Position(cand.pool, now, cand.apy, cand.riskScore, cand.isNew)),
             Tail(remaining), now)

\* the entry loop of investFromWatchlist over remaining = optimal.slice(0, slots)
RECURSIVE EnterPositions(_, _, _)
EnterPositions(active, remaining, now) ==
  IF remaining = <<>> THEN active
  ELSE LET cand == Head(remaining)
       IN  IF ~(\E i \in 1..Len(active) : active[i].poolId = cand.pool)
           THEN EnterPositions(
                  Append(active, Position(cand.pool, now, cand.apy, cand.riskScore, cand.isNew)),
                  Tail(remaining), now)
           ELSE EnterPositions(active, Tail(remaining), now)

\* optimal, as investFromWatchlist computes it from the matured entries and
\* the list allPools that fetchNewIncentivePools resolved to
OptimalOf(matured, allPools) ==
  LET validated == validateAndFilterNewPools(matured, allPools, defaultConfig)
  IN  IF validated = <<>> THEN <<>>
      ELSE selectOptimalPools(
             enrichPoolData(Slice(validated, ENRICH_TOP_N), defaultConfig), defaultConfig)

\* investFromWatchlist from the point where its fetch resolved to allPools;
\* slots and now were taken before the fetch
investFromWatchlist(portfolio, slots, matured, allPools, now) ==
  LET validated == validateAndFilterNewPools(matured, allPools, defaultConfig)
      optimal   == OptimalOf(matured, allPools)
      st        == Rebalance([active |-> portfolio.active, exited |-> portfolio.exited,
                              slots |-> slots], optimal, now)
  IN  IF validated = <<>> THEN portfolio
      ELSE [active |-> EnterPositions(st.active, Slice(optimal, st.slots), now),
            exited |-> st.exited]

\* ------------------------------------------------------------------ state
VARIABLES
  now,            \* Date.now()
  nextTick,       \* when the setInterval timer (or the start-up call) is due
  started,        \* workflowLoop invocations so far
  portfolioFile,  \* active_portfolio.json
  watchlistFile,  \* watchlist.json
  cyc,            \* the workflowLoop invocations, by number
  feed,           \* the lists the data source serves in this run
  lastInvest,     \* record of the investFromWatchlist call that has just returned
  sel,            \* a direct call of selectOptimalPools: its arguments and result
  leftWatching,   \* the pool ids whose entry updateWatchlist has pruned so far
  alive,          \* the workflow manager process is running
  db,             \* the database: the Position and WatchlistPool tables
  logged,         \* the entries the workflow manager's logger got in the last step
  writeFaults,    \* the writes that the file system can still reject in this run
  risk,           \* direct calls of calculateRiskScore: the pool, the config, the scores
  det,            \* a direct call of fetchNewIncentivePools: the fetched list, the result
  yld,            \* direct calls of calculateYield: the position, the exit data, the results
  hold,           \* a pool admitted by selectOptimalPools and then looked at by checkForExits
  readFaults,     \* the reads that the file system can still reject in this run
  proxy,          \* the CoinGecko proxy of the API server
  inv             \* a direct call of investFromWatchlist's rebalancing and entry loops

vars == <<now, nextTick, started, portfolioFile, watchlistFile, cyc, feed, lastInvest, sel,
          leftWatching, alive, db, logged, writeFaults, risk, det, yld, hold, readFaults, proxy, inv>>

Cycles == 1..MaxStarts

\* an invocation that has not started, or has ended
IdleCycle ==
  [ pc |-> "idle", portfolio |-> EmptyPortfolio, watchlist |-> <<>>,
    now |-> 0, before |-> EmptyPortfolio, acc |-> [stillActive |-> <<>>, exited |-> <<>>],
    currents |-> <<>>, slots |-> 0, matured |-> <<>>, inserted |-> {},
    loadFailed |-> FALSE ]

NoCall == [called |-> FALSE]

NoDetect == [done |-> FALSE, input |-> <<>>, output |-> <<>>]

NoRisk == [pool |-> Null, config |-> defaultConfig, calls |-> <<>>]

NoYield == [position |-> Null, calls |-> <<>>]

NoHold == [config |-> defaultConfig, pool |-> Null, pos |-> Null, checks |-> <<>>]

NoInvest == [done |-> FALSE, portfolio |-> EmptyPortfolio, optimal |-> <<>>, after |-> EmptyPortfolio]

\* the CoinGecko proxy of the API server (part_006, lines 113-117)
API_CALL_INTERVAL == 5000
CACHE_DURATION    == 120000

MaxRequests   == 3  \* GET /api/coingecko/prices requests in one behaviour
MaxProxySteps == 3  \* steps of the proxy's clock in one behaviour

\* the cache keys `${ids}-${vs_currencies}` of the modelled requests
ProxyKeys == {"bitcoin-usd", "solana-usd"}

Requests == 1..MaxRequests

\* a request that has not arrived
NoRequest == [pc |-> "new", key |-> "-", wakeAt |-> 0, owner |-> 0, result |-> 0]

\* the proxy after start-up: lastApiCall = 0, priceCache and pendingRequests
\* empty (cachedAt 0: no entry; pending 0: no entry, else the request whose
\* promise is registered); starts lists the upstream requests issued
NoProxy ==
  [ clock |-> T0, steps |-> 0, lastApiCall |-> 0,
    cachedAt |-> [k \in ProxyKeys |-> 0], pending |-> [k \in ProxyKeys |-> 0],
    reqs |-> [r \in Requests |-> NoRequest], starts |-> <<>> ]

NoSelect == [done |-> FALSE, input |-> <<>>, config |-> defaultConfig, output |-> <<>>]

\* the tables before any row is created; migrations counts the runs of the
\* migration script
EmptyDb == [positions |-> <<>>, watchlist |-> <<>>, migrations |-> 0]

InProgress == { c \in Cycles : cyc[c].pc # "idle" }

Init ==
  /\ now = T0
  /\ nextTick = T0
  /\ started = 0
  /\ \E n \in SeedCounts :
       portfolioFile = StringifyPortfolio([active |-> SubSeq(SeedPositions, 1, n), exited |-> <<>>])
  /\ watchlistFile = <<>>
  /\ cyc = [c \in Cycles |-> IdleCycle]
  /\ feed \in Feeds
  /\ lastInvest = NoCall
  /\ sel = NoSelect
  /\ leftWatching = {}
  /\ alive = TRUE
  /\ db = EmptyDb
  /\ logged = {}
  /\ writeFaults = 0
  /\ risk = NoRisk
  /\ det = NoDetect
  /\ yld = NoYield
  /\ hold = NoHold
  /\ readFaults = 0
  /\ proxy = NoProxy
  /\ inv = NoInvest

\* the record kept of an investFromWatchlist call: its inputs (portfolio,
\* matured entries, the list its fetch resolved to, now), the portfolio it
\* left, and the pool ids updateWatchlist inserted earlier in the same cycle
InvestRecord(before, matured, allPools, t, after, inserted) ==
  [called |-> TRUE, before |-> before, matured |-> matured,
   allPools |-> allPools, now |-> t, after |-> after, inserted |-> inserted]

\* logger.info / logger.error of workflow_manager.js: the level, the message
\* (by the words it starts with) and the position or the file it is about
PORTFOLIO_FILE == "active_portfolio.json"
WATCHLIST_FILE == "watchlist.json"
NoSubject      == "-"
LogEntry(level, message, about) == [level |-> level, message |-> message, about |-> about]

\* saveJsonFile(path, data) with ok telling whether fs.writeFileSync
\* succeeds; a rejected write (the file cannot be opened for writing) leaves
\* the file as it was, and the catch block logs the error
saveJsonFile(path, file, data, ok) ==
  IF ok THEN [file |-> data, logged |-> {LogEntry("info", "Saved state to", path)}]
  ELSE [file |-> file, logged |-> {LogEntry("error", "Failed to save", path)}]

\* loadJsonFile(path, defaultVal) with ok telling whether fs.readFileSync and
\* JSON.parse succeed (parsed is then the content of the file); on a failure
\* the catch block logs the error and the default value is returned
loadJsonFile(path, parsed, defaultVal, ok) ==
  IF ok THEN [value |-> parsed, logged |-> {}]
  ELSE [value |-> defaultVal, logged |-> {LogEntry("error", "Failed to load", path)}]

\* the outcomes of the two writes of a cycle when n more writes can fail
Faults(ok) == (IF ok[1] THEN 0 ELSE 1) + (IF ok[2] THEN 0 ELSE 1)
SaveOutcomes(n) == { ok \in BOOLEAN \X BOOLEAN : Faults(ok) <= n }

\* the outcomes of the two reads of a cycle when n more reads can fail
LoadOutcomes(n) == { ok \in BOOLEAN \X BOOLEAN : Faults(ok) <= n }

\* lines 184-187 with a saveJsonFile that has no try/catch: the first write
\* that fails throws, the rest of workflowLoop is skipped and the rejection
\* of its promise is unhandled: the process terminates
SaveAndFinishNoCatch(c, portfolio, watchlist, ok, logs) ==
  LET p == saveJsonFile(PORTFOLIO_FILE, portfolioFile, StringifyPortfolio(portfolio), ok[1])
      w == saveJsonFile(WATCHLIST_FILE, watchlistFile, StringifyWatchlist(watchlist), ok[2])
  IN  IF ok = <<TRUE, TRUE>>
      THEN /\ portfolioFile' = p.file
           /\ watchlistFile' = w.file
           /\ logged' = logs \cup p.logged \cup w.logged
                          \cup {LogEntry("info", "Cycle Complete", NoSubject)}
           /\ writeFaults' = writeFaults
           /\ cyc' = [cyc EXCEPT ![c] = IdleCycle]
           /\ alive' = alive
      ELSE /\ portfolioFile' = p.file
           /\ watchlistFile' = watchlistFile
           /\ logged' = logs \cup (IF ok[1] THEN p.logged ELSE {})
           /\ writeFaults' = writeFaults - 1
           /\ cyc' = [d \in Cycles |-> IdleCycle]
           /\ alive' = FALSE

\* saveJsonFile(PORTFOLIO_FILE, portfolio); saveJsonFile(WATCHLIST_FILE, watchlist),
\* the closing log line and the end of workflowLoop; logs are the entries
\* logged earlier in the same step
SaveAndFinish(c, portfolio, watchlist, ok, logs) ==
  LET p == saveJsonFile(PORTFOLIO_FILE, portfolioFile, StringifyPortfolio(portfolio), ok[1])
      w == saveJsonFile(WATCHLIST_FILE, watchlistFile, StringifyWatchlist(watchlist), ok[2])
  IN  /\ portfolioFile' = p.file
      /\ watchlistFile' = w.file
      /\ logged' = logs \cup p.logged \cup w.logged
                     \cup {LogEntry("info", "Cycle Complete", NoSubject)}
      /\ writeFaults' = writeFaults - Faults(ok)
      /\ cyc' = [cyc EXCEPT ![c] = IdleCycle]
      /\ alive' = alive

\* workflowLoop is called (at start-up, then by setInterval): it loads both
\* files and runs checkForExits up to its first await; with no active
\* position checkForExits returns at once and updateWatchlist awaits its fetch
Tick(c) ==
  /\ alive
  /\ c = started + 1
  /\ started < MaxStarts
  /\ now >= nextTick
  /\ nextTick' = now + RUN_INTERVAL_MS
  /\ started' = started + 1
  /\ \E ok \in LoadOutcomes(readFaults) :
       LET loadedP   == loadJsonFile(PORTFOLIO_FILE, ParsePortfolio(portfolioFile),
                                     EmptyPortfolio, ok[1])
           loadedW   == loadJsonFile(WATCHLIST_FILE, ParseWatchlist(watchlistFile), <<>>, ok[2])
           portfolio == loadedP.value
           watchlist == loadedW.value
       IN  /\ cyc' = [cyc EXCEPT ![c] =
                  [IdleCycle EXCEPT
                     !.pc = IF portfolio.active = <<>> THEN "update" ELSE "exits",
                     !.portfolio = portfolio, !.watchlist = watchlist, !.now = now,
                     !.before = portfolio,
                     !.acc = [stillActive |-> <<>>, exited |-> portfolio.exited],
                     !.loadFailed = ~ok[1]]]
           /\ logged' = {LogEntry("info", "Workflow Cycle", NoSubject)}
                          \cup loadedP.logged \cup loadedW.logged
                          \cup (IF portfolio.active = <<>>
                                THEN {LogEntry("info", "Updating watchlist", NoSubject)} ELSE {})
           /\ readFaults' = readFaults - Faults(ok)
  /\ lastInvest' = NoCall
  /\ UNCHANGED <<now, portfolioFile, watchlistFile, feed, sel, leftWatching, alive, db,
                 writeFaults, risk, det, yld, hold, proxy, inv>>

\* what one iteration of the loop of checkForExits logs: line 77, on an exit
ExitLogs(acc, after) ==
  { LogEntry("info", "Exiting", after.exited[i].poolId) :
      i \in (Len(acc.exited) + 1)..Len(after.exited) }

\* the fetch awaited by fetchPoolById in checkForExits resolves: the loop
\* body runs for the current position, and the loop goes on to the next
\* await, or ends (portfolio.active = stillActive) and updateWatchlist
\* awaits its fetch
ExitStep(c) ==
  /\ alive
  /\ cyc[c].pc = "exits"
  /\ \E current \in { fetchPoolById(raw, cyc[c].portfolio.active[Len(cyc[c].currents) + 1].poolId) :
                          raw \in feed } :
       LET me       == cyc[c]
           pos      == me.portfolio.active[Len(me.currents) + 1]
           acc      == ExitIteration(me.acc, pos, current, me.now)
           currents == Append(me.currents, current)
           done     == Len(currents) = Len(me.portfolio.active)
       IN  /\ cyc' = [cyc EXCEPT ![c] =
                  IF done
                  THEN [me EXCEPT !.pc = "update", !.acc = acc, !.currents = currents,
                                  !.portfolio = [active |-> acc.stillActive, exited |-> acc.exited]]
                  ELSE [me EXCEPT !.acc = acc, !.currents = currents]]
           /\ logged' = ExitLogs(me.acc, acc)
                          \cup (IF done THEN {LogEntry("info", "Updating watchlist", NoSubject)}
                                ELSE {})
  /\ lastInvest' = NoCall
  /\ UNCHANGED <<now, nextTick, started, portfolioFile, watchlistFile, feed, sel,
                 leftWatching, alive, db, writeFaults, risk, det, yld, hold, readFaults, proxy, inv>>

\* lines 114-115 of updateWatchlist
UpdateLogs(watchlist, detected, t) ==
  (IF Len(WatchlistInsert(watchlist, watchlist, Slice(detected, WATCHLIST_TOP_N), t))
        > Len(watchlist)
   THEN {LogEntry("info", "Added", NoSubject)} ELSE {})
  \cup (IF PrunedIds(watchlist, detected, t) # {}
        THEN {LogEntry("info", "Removed", NoSubject)} ELSE {})

\* lines 133, 146 and 159 of investFromWatchlist, read off the portfolio
\* before and after the call
InvestLogs(before, after, validated) ==
  IF validated = <<>> THEN {LogEntry("info", "No validated pools", NoSubject)}
  ELSE { LogEntry("info", "Rebalancing", after.exited[i].poolId) :
           i \in (Len(before.exited) + 1)..Len(after.exited) }
       \cup { LogEntry("info", "Entering", after.active[i].poolId) :
                i \in { j \in 1..Len(after.active) :
                          \A k \in 1..Len(before.active) : before.active[k] # after.active[j] } }

\* the update step with the free slots counted on the portfolio as loaded,
\* before checkForExits replaced portfolio.active
UpdateStepSlotsAtLoad(c) ==
  /\ alive
  /\ cyc[c].pc = "update"
  /\ \E detected \in { FetchNewIncentivePools(raw, defaultConfig, now) : raw \in feed },
        ok \in SaveOutcomes(writeFaults) :
       LET me        == cyc[c]
           watchlist == updateWatchlist(me.watchlist, detected, now)
           slots     == MAX_ACTIVE_POSITIONS - Len(me.before.active)
           matured   == Matured(watchlist, now)
           inserted  == InsertedIds(me.watchlist, detected)
           logs      == UpdateLogs(me.watchlist, detected, now)
                          \cup {LogEntry("info", "Evaluating watchlist", NoSubject)}
       IN  /\ leftWatching' = leftWatching \cup PrunedIds(me.watchlist, detected, now)
           /\ IF matured = <<>>
              THEN /\ SaveAndFinish(c, me.portfolio, watchlist, ok,
                                    logs \cup {LogEntry("info", "No matured pools", NoSubject)})
                   /\ lastInvest' = InvestRecord(me.portfolio, matured, <<>>, now,
                                                 me.portfolio, inserted)
              ELSE /\ ok = <<TRUE, TRUE>>
                   /\ cyc' = [cyc EXCEPT ![c] =
                          [me EXCEPT !.pc = "invest", !.watchlist = watchlist, !.now = now,
                                     !.before = EmptyPortfolio, !.currents = <<>>,
                                     !.acc = IdleCycle.acc,
                                     !.slots = slots, !.matured = matured,
                                     !.inserted = inserted]]
                   /\ lastInvest' = NoCall
                   /\ logged' = logs
                   /\ UNCHANGED <<portfolioFile, watchlistFile, alive, writeFaults>>
  /\ UNCHANGED <<now, nextTick, started, feed, sel, db, risk, det, yld, hold, readFaults, proxy, inv>>

\* the fetch awaited by updateWatchlist resolves: the watchlist is updated,
\* investFromWatchlist starts and either returns for want of matured entries
\* (the files are saved and the cycle ends) or awaits its own fetch
UpdateStep(c) ==
  /\ alive
  /\ cyc[c].pc = "update"
  /\ \E detected \in { FetchNewIncentivePools(raw, defaultConfig, now) : raw \in feed },
        ok \in SaveOutcomes(writeFaults) :
       LET me        == cyc[c]
           watchlist == updateWatchlist(me.watchlist, detected, now)
           slots     == MAX_ACTIVE_POSITIONS - Len(me.portfolio.active)
           matured   == Matured(watchlist, now)
           inserted  == InsertedIds(me.watchlist, detected)
           logs      == UpdateLogs(me.watchlist, detected, now)
                          \cup {LogEntry("info", "Evaluating watchlist", NoSubject)}
       IN  /\ leftWatching' = leftWatching \cup PrunedIds(me.watchlist, detected, now)
           /\ IF matured = <<>>
              THEN /\ SaveAndFinish(c, me.portfolio, watchlist, ok,
                                    logs \cup {LogEntry("info", "No matured pools", NoSubject)})
                   /\ lastInvest' = InvestRecord(me.portfolio, matured, <<>>, now,
                                                 me.portfolio, inserted)
              ELSE /\ ok = <<TRUE, TRUE>>
                   /\ cyc' = [cyc EXCEPT ![c] =
                          [me EXCEPT !.pc = "invest", !.watchlist = watchlist, !.now = now,
                                     !.before = EmptyPortfolio, !.currents = <<>>,
                                     !.acc = IdleCycle.acc,
                                     !.slots = slots, !.matured = matured,
                                     !.inserted = inserted]]
                   /\ lastInvest' = NoCall
                   /\ logged' = logs
                   /\ UNCHANGED <<portfolioFile, watchlistFile, alive, writeFaults>>
  /\ UNCHANGED <<now, nextTick, started, feed, sel, db, risk, det, yld, hold, readFaults, proxy, inv>>

\* the fetch awaited by investFromWatchlist resolves: validation, selection,
\* rebalancing and entry run, both files are saved and the cycle ends
InvestStep(c) ==
  /\ alive
  /\ cyc[c].pc = "invest"
  /\ \E allPools \in { FetchNewIncentivePools(raw, defaultConfig, now) : raw \in feed },
        ok \in SaveOutcomes(writeFaults) :
       LET me        == cyc[c]
           portfolio == investFromWatchlist(me.portfolio, me.slots, me.matured, allPools, me.now)
           validated == validateAndFilterNewPools(me.matured, allPools, defaultConfig)
       IN  /\ SaveAndFinish(c, portfolio, me.watchlist, ok,
                            InvestLogs(me.portfolio, portfolio, validated))
           /\ lastInvest' = InvestRecord(me.portfolio, me.matured, allPools, me.now,
                                         portfolio, me.inserted)
  /\ UNCHANGED <<now, nextTick, started, feed, sel, leftWatching, db, risk, det, yld, hold, readFaults, proxy, inv>>

\* the fetch a cycle awaits is rejected (axios.get throws): the rejection
\* leaves workflowLoop, which has no try/catch, and nothing is saved.  The
\* promise workflowLoop returned is rejected with no handler attached
\* (lines 193-194): depending on the runtime's unhandled-rejection mode the
\* process goes on, or terminates, abandoning every cycle in progress.
FetchFail(c) ==
  /\ alive
  /\ cyc[c].pc \in {"exits", "update", "invest"}
  /\ \/ cyc' = [cyc EXCEPT ![c] = IdleCycle] /\ alive' = TRUE
     \/ cyc' = [d \in Cycles |-> IdleCycle] /\ alive' = FALSE
  /\ lastInvest' = NoCall
  /\ logged' = {}
  /\ UNCHANGED <<now, nextTick, started, portfolioFile, watchlistFile, feed, sel,
                 leftWatching, db, writeFaults, risk, det, yld, hold, readFaults, proxy, inv>>

\* time passes, by a quarter of an hour or by a day; a timer tick that
\* the clock passes over stands for a cycle whose first fetch is rejected
QUARTER == 15 * MINUTE
AdvanceTime ==
  /\ ((now - T0) % DAY) \div QUARTER + (now - T0) \div DAY < MaxClockSteps
  /\ \/ now' = now + QUARTER
     \/ now' = now + DAY
  /\ lastInvest' = NoCall
  /\ logged' = {}
  /\ UNCHANGED <<nextTick, started, portfolioFile, watchlistFile, cyc, feed, sel,
                 leftWatching, alive, db, writeFaults, risk, det, yld, hold, readFaults, proxy, inv>>

Next ==
  \/ \E c \in Cycles : Tick(c)
  \/ \E c \in Cycles : ExitStep(c)
  \/ \E c \in Cycles : UpdateStep(c)
  \/ \E c \in Cycles : InvestStep(c)
  \/ \E c \in Cycles : FetchFail(c)
  \/ AdvanceTime

Spec == Init /\ [][Next]_vars

\* What is certain to happen: the event loop runs the timer callback when it
\* is due, and time passes.  The data source is under no obligation to
\* answer: axios.get is called without a timeout (part_011, line 36; the
\* axios default is 0, no timeout), so the steps in which a fetch resolves
\* or is rejected may never come.
SpecLive ==
  /\ Init /\ [][Next]_vars
  /\ WF_vars(AdvanceTime)
  /\ \A c \in Cycles : WF_vars(Tick(c))

\* ------------------------------------------- a watchlist with old entries
\* watchlist.json as earlier cycles left it: an entry first seen seven days
\* before this start, and one first seen an hour ago
WatchEntry(poolId, firstSeen, isNew) ==
  [poolId |-> poolId, firstSeen |-> firstSeen, isNew |-> isNew]

SeedWatchlist ==
  << WatchEntry("p1", T0 - WATCHLIST_MAX_AGE_MS, TRUE), WatchEntry("p7", T0 - HOUR, FALSE) >>

InitWatch ==
  /\ now = T0
  /\ nextTick = T0
  /\ started = 0
  /\ portfolioFile = StringifyPortfolio([active |-> SubSeq(SeedPositions, 1, 1), exited |-> <<>>])
  /\ watchlistFile = StringifyWatchlist(SeedWatchlist)
  /\ cyc = [c \in Cycles |-> IdleCycle]
  /\ feed = FeedP1
  /\ lastInvest = NoCall
  /\ sel = NoSelect
  /\ leftWatching = {}
  /\ alive = TRUE
  /\ db = EmptyDb
  /\ logged = {}
  /\ writeFaults = 0
  /\ risk = NoRisk
  /\ det = NoDetect
  /\ yld = NoYield
  /\ hold = NoHold
  /\ readFaults = 0
  /\ proxy = NoProxy
  /\ inv = NoInvest

SpecWatch == InitWatch /\ [][Next]_vars

\* ------------------------------------------------ a disk that rejects writes
MaxWriteFailures == 1  \* writes that fs.writeFileSync rejects in one behaviour

\* a run that starts with one position, in which the file system rejects
\* up to MaxWriteFailures writes of the state files
InitDisk ==
  /\ now = T0
  /\ nextTick = T0
  /\ started = 0
  /\ portfolioFile = StringifyPortfolio([active |-> SubSeq(SeedPositions, 1, 1), exited |-> <<>>])
  /\ watchlistFile = <<>>
  /\ cyc = [c \in Cycles |-> IdleCycle]
  /\ feed = FeedNoId
  /\ lastInvest = NoCall
  /\ sel = NoSelect
  /\ leftWatching = {}
  /\ alive = TRUE
  /\ db = EmptyDb
  /\ logged = {}
  /\ writeFaults = MaxWriteFailures
  /\ risk = NoRisk
  /\ det = NoDetect
  /\ yld = NoYield
  /\ hold = NoHold
  /\ readFaults = 0
  /\ proxy = NoProxy
  /\ inv = NoInvest

SpecDisk == InitDisk /\ [][Next]_vars

MaxReadFailures == 1  \* reads of a state file that fail in one behaviour

\* a run that starts with one position, in which up to MaxReadFailures
\* reads of the state files fail
InitRead ==
  /\ now = T0
  /\ nextTick = T0
  /\ started = 0
  /\ portfolioFile = StringifyPortfolio([active |-> SubSeq(SeedPositions, 1, 1), exited |-> <<>>])
  /\ watchlistFile = <<>>
  /\ cyc = [c \in Cycles |-> IdleCycle]
  /\ feed = FeedNoId
  /\ lastInvest = NoCall
  /\ sel = NoSelect
  /\ leftWatching = {}
  /\ alive = TRUE
  /\ db = EmptyDb
  /\ logged = {}
  /\ writeFaults = 0
  /\ risk = NoRisk
  /\ det = NoDetect
  /\ yld = NoYield
  /\ hold = NoHold
  /\ readFaults = MaxReadFailures
  /\ proxy = NoProxy
  /\ inv = NoInvest

SpecRead == InitRead /\ [][Next]_vars

\* ------------------------------------------- the database and the API server
\* A nullable column that holds null is DbNull when it holds a string and 0
\* when it holds a number or a date.  Of the columns of Position the model
\* keeps those that the workflow state carries.
DbNull == "null"

MaxMigrations == 1  \* runs of the migration script in one behaviour

\* prisma.position.create in addPosition: status and entryTimestamp take
\* their defaults ('active', now()), the exit columns are null
PositionRow(position, t) ==
  [ poolId |-> position.poolId, status |-> "active", entryTimestamp |-> t,
    entryApy |-> position.entryApy, entryRiskScore |-> position.entryRisk,
    isNew |-> position.isNew,
    exitTimestamp |-> 0, exitReason |-> DbNull, profitLoss |-> 0 ]

\* addPosition throws when the required column poolId gets no value
addPositionThrows(position) == position.poolId = Undefined

\* exitPosition: updateMany on the active rows of the pool; a data field
\* that is undefined is left as it is
exitPosition(positions, poolId, exitData, t) ==
  [i \in 1..Len(positions) |->
     IF positions[i].poolId = poolId /\ positions[i].status = "active"
     THEN [positions[i] EXCEPT
             !.status = "exited", !.exitTimestamp = t,
             !.exitReason = IF exitData.reason = Undefined THEN @ ELSE exitData.reason,
             !.profitLoss = exitData.profitLoss]
     ELSE positions[i]]

\* the loop of migrateData over portfolioData.active; a position whose
\* addPosition throws is logged and skipped
RECURSIVE MigrateActive(_, _, _)
MigrateActive(positions, active, t) ==
  IF active = <<>> THEN positions
  ELSE MigrateActive(
         IF addPositionThrows(Head(active)) THEN positions
         ELSE Append(positions, PositionRow(Head(active), t)),
         Tail(active), t)

\* the loop of migrateData over portfolioData.exited: the position is
\* created, then exited with pos.exitReason || 'migrated_exit' and
\* pos.profitLoss || 0 (the positions of active_portfolio.json carry no
\* profitLoss)
RECURSIVE MigrateExited(_, _, _)
MigrateExited(positions, exited, t) ==
  IF exited = <<>> THEN positions
  ELSE LET pos == Head(exited)
       IN  MigrateExited(
             IF addPositionThrows(pos) THEN positions
             ELSE exitPosition(Append(positions, PositionRow(pos, t)), pos.poolId,
                               [reason |-> IF pos.exitReason = Undefined
                                           THEN "migrated_exit" ELSE pos.exitReason,
                                profitLoss |-> 0], t),
             Tail(exited), t)

\* addToWatchlist: upsert on the unique poolId; it throws without a poolId
addToWatchlist(watchlist, pool, t) ==
  IF pool.poolId = Undefined THEN watchlist
  ELSE IF \E i \in 1..Len(watchlist) : watchlist[i].poolId = pool.poolId
       THEN [i \in 1..Len(watchlist) |->
               IF watchlist[i].poolId = pool.poolId
               THEN [watchlist[i] EXCEPT !.lastChecked = t] ELSE watchlist[i]]
       ELSE Append(watchlist, [poolId |-> pool.poolId, firstSeen |-> t, isNew |-> pool.isNew,
                               lastChecked |-> t, status |-> "watching"])

RECURSIVE MigrateWatchlist(_, _, _)
MigrateWatchlist(watchlist, entries, t) ==
  IF entries = <<>> THEN watchlist
  ELSE MigrateWatchlist(addToWatchlist(watchlist, Head(entries), t), Tail(entries), t)

\* the migration script runs: it reads both JSON files and creates the rows
MigrateData ==
  /\ db.migrations < MaxMigrations
  /\ LET portfolioData == ParsePortfolio(portfolioFile)
         watchlistData == ParseWatchlist(watchlistFile)
     IN  db' = [positions  |-> MigrateExited(MigrateActive(db.positions, portfolioData.active, now),
                                             portfolioData.exited, now),
                watchlist  |-> MigrateWatchlist(db.watchlist, watchlistData, now),
                migrations |-> db.migrations + 1]
  /\ lastInvest' = NoCall
  /\ logged' = {}
  /\ UNCHANGED <<now, nextTick, started, portfolioFile, watchlistFile, cyc, feed, sel,
                 leftWatching, alive, writeFaults, risk, det, yld, hold, readFaults, proxy, inv>>

\* the request bodies of POST /api/positions/:poolId/exit: without a
\* reason, with a reason of the caller's, with reason null
ManualPools   == {"p1"}
ManualReasons == {Undefined, "stop_loss", DbNull}

\* POST /api/positions/:poolId/exit with const { reason = 'manual',
\* profitLoss = 0 } = req.body
ManualExit(poolId, reason) ==
  /\ db' = [db EXCEPT !.positions =
              exitPosition(@, poolId,
                           [reason |-> IF reason = Undefined THEN "manual" ELSE reason,
                            profitLoss |-> 0], now)]
  /\ lastInvest' = NoCall
  /\ logged' = {}
  /\ UNCHANGED <<now, nextTick, started, portfolioFile, watchlistFile, cyc, feed, sel,
                 leftWatching, alive, writeFaults, risk, det, yld, hold, readFaults, proxy, inv>>

\* cleanOldWatchlistEntries(daysOld): deleteMany on the watching rows first
\* seen before the cutoff (setDate(getDate() - daysOld), taken as daysOld
\* times 24 hours)
cleanOldWatchlistEntries(watchlist, daysOld, t) ==
  Filter(watchlist, [i \in 1..Len(watchlist) |->
                       ~(watchlist[i].firstSeen < t - daysOld * DAY
                           /\ watchlist[i].status = "watching")])

\* the request bodies of POST /api/watchlist/cleanup: { days: 0 }, and none
\* (const { days = 7 } = req.body)
CleanupDays == {0, 7}

\* POST /api/watchlist/cleanup
WatchlistCleanup(days) ==
  /\ db' = [db EXCEPT !.watchlist = cleanOldWatchlistEntries(@, days, now)]
  /\ lastInvest' = NoCall
  /\ logged' = {}
  /\ UNCHANGED <<now, nextTick, started, portfolioFile, watchlistFile, cyc, feed, sel,
                 leftWatching, alive, writeFaults, risk, det, yld, hold, readFaults, proxy, inv>>

\* one more cycle of a workflow manager that holds a full portfolio, with a
\* data source that serves pool p1 after its drop or a new pool; the
\* migration script and the API server run beside it
FeedMixed == { <<P1Dropped>>, <<NoIdHigh>> }

InitDb ==
  /\ now = T0
  /\ nextTick = T0
  /\ started = MaxStarts - 1
  /\ portfolioFile = StringifyPortfolio([active |-> SeedPositions, exited |-> <<>>])
  /\ watchlistFile = <<>>
  /\ cyc = [c \in Cycles |-> IdleCycle]
  /\ feed = FeedMixed
  /\ lastInvest = NoCall
  /\ sel = NoSelect
  /\ leftWatching = {}
  /\ alive = TRUE
  /\ db = EmptyDb
  /\ logged = {}
  /\ writeFaults = 0
  /\ risk = NoRisk
  /\ det = NoDetect
  /\ yld = NoYield
  /\ hold = NoHold
  /\ readFaults = 0
  /\ proxy = NoProxy
  /\ inv = NoInvest

NextDb ==
  \/ Next
  \/ MigrateData
  \/ \E poolId \in ManualPools, reason \in ManualReasons : ManualExit(poolId, reason)
  \/ \E days \in CleanupDays : WatchlistCleanup(days)

SpecDb == InitDb /\ [][NextDb]_vars

\* the migration script run on a portfolio file that earlier cycles wrote:
\* a pool can be among the exited positions and, re-entered, among the
\* active ones
MigrateExitedRecords ==
  { [Position(id, T0 - 2 * DAY, 100, 3, FALSE) EXCEPT
       !.status = "exited", !.exitTimestamp = T0 - DAY, !.exitReason = reason] :
      id \in {"p1", "p2"}, reason \in {"time_exit", "apy_drop"} }

MigratePortfolios ==
  { [active |-> active, exited |-> exited] :
      active \in { <<>>, <<Position("p1", T0 - HOUR, 120, 3, FALSE)>>,
                   <<Position("p2", T0 - HOUR, 90, 3, FALSE)>>,
                   <<Position("p1", T0 - HOUR, 120, 3, FALSE),
                     Position("p2", T0 - HOUR, 90, 3, FALSE)>> },
      exited \in UNION { [1..n -> MigrateExitedRecords] : n \in 0..2 } }

InitMigrate ==
  /\ now = T0
  /\ nextTick = T0
  /\ started = 0
  /\ \E portfolio \in MigratePortfolios : portfolioFile = StringifyPortfolio(portfolio)
  /\ watchlistFile = <<>>
  /\ cyc = [c \in Cycles |-> IdleCycle]
  /\ feed = FeedP1
  /\ lastInvest = NoCall
  /\ sel = NoSelect
  /\ leftWatching = {}
  /\ alive = TRUE
  /\ db = EmptyDb
  /\ logged = {}
  /\ writeFaults = 0
  /\ risk = NoRisk
  /\ det = NoDetect
  /\ yld = NoYield
  /\ hold = NoHold
  /\ readFaults = 0
  /\ proxy = NoProxy
  /\ inv = NoInvest

SpecMigrate == InitMigrate /\ [][MigrateData]_vars

\* ------------------------------------- selectOptimalPools called directly
\* enriched pool records as selectOptimalPools reads them: the reward
\* tokens, the risk score (at and above maxRiskScore) and the profit potential
EnrichedKinds ==
  [ rewardTokens : {<<>>, <<"A">>, <<"B">>}, riskScore : {7, 8}, profitPotential : {1, 2} ]

SelectInputs == UNION { [1..n -> EnrichedKinds] : n \in 0..MaxPools }

SelectConfigs ==
  { [defaultConfig EXCEPT !.maxPerToken = a, !.maxTotal = b] : a \in {0, 1, 2}, b \in {0, 2, 5} }

InitSelect ==
  /\ now = T0
  /\ nextTick = T0
  /\ started = 0
  /\ portfolioFile = StringifyPortfolio(EmptyPortfolio)
  /\ watchlistFile = <<>>
  /\ cyc = [c \in Cycles |-> IdleCycle]
  /\ feed = FeedP1
  /\ lastInvest = NoCall
  /\ leftWatching = {}
  /\ alive = TRUE
  /\ db = EmptyDb
  /\ logged = {}
  /\ writeFaults = 0
  /\ risk = NoRisk
  /\ det = NoDetect
  /\ yld = NoYield
  /\ hold = NoHold
  /\ readFaults = 0
  /\ proxy = NoProxy
  /\ inv = NoInvest
  /\ \E input \in SelectInputs, config \in SelectConfigs :
       sel = [done |-> FALSE, input |-> input, config |-> config, output |-> <<>>]

SelectCall ==
  /\ ~sel.done
  /\ sel' = [sel EXCEPT !.done = TRUE, !.output = selectOptimalPools(sel.input, sel.config)]
  /\ UNCHANGED <<now, nextTick, started, portfolioFile, watchlistFile, cyc, feed, lastInvest,
                 leftWatching, alive, db, logged, writeFaults, risk, det, yld, hold, readFaults, proxy, inv>>

NextSelect == SelectCall

SpecSelect == InitSelect /\ [][NextSelect]_vars

\* ------------------------------------- calculateRiskScore called directly
MaxRiskCalls == 3  \* calls of calculateRiskScore in one behaviour

\* Pool records as calculateRiskScore reads them.  Each property is either
\* missing or holds one of the listed values (the values on both sides of
\* each threshold, an APY of zero and a negative one).
NoField == [k \in {} |-> 0]
RiskPools ==
  { a @@ t @@ r @@ e @@ c @@ i @@ g :
      a \in {NoField} \cup { [apy |-> v] : v \in {-5, 0, 100, 101, 250} },
      t \in {NoField} \cup { [tvlUsd |-> v] : v \in {40000, 100000} },
      r \in {NoField} \cup { [apyReward |-> v] : v \in {10, 80, 200} },
      e \in {NoField} \cup { [exposure |-> v] : v \in {"single", "multi"} },
      c \in {NoField} \cup { [predictedClass |-> "Down"] },
      i \in {NoField} \cup { [ilRisk |-> "yes"] },
      g \in {NoField} \cup { [sigma |-> v] : v \in {2, 3} } }

\* the pool of the documented scoring example
ScenarioPool == [apy |-> 250, tvlUsd |-> 40000, apyReward |-> 200, rewardTokens |-> <<"X">>]

\* the default config, one with other thresholds (ratio 0.5, sigma 1), and
\* one without the two thresholds that calculateRiskScore reads
RiskConfigs ==
  { defaultConfig,
    [defaultConfig EXCEPT !.highRewardRatioThresholdNum = 1, !.highRewardRatioThresholdDen = 2,
                          !.volatilitySigmaThreshold = 1],
    [k \in DOMAIN defaultConfig \ {"highRewardRatioThresholdNum", "highRewardRatioThresholdDen",
                                     "volatilitySigmaThreshold"} |-> defaultConfig[k]] }

InitRisk ==
  /\ now = T0
  /\ nextTick = T0
  /\ started = 0
  /\ portfolioFile = StringifyPortfolio(EmptyPortfolio)
  /\ watchlistFile = <<>>
  /\ cyc = [c \in Cycles |-> IdleCycle]
  /\ feed = FeedP1
  /\ lastInvest = NoCall
  /\ sel = NoSelect
  /\ leftWatching = {}
  /\ alive = TRUE
  /\ db = EmptyDb
  /\ logged = {}
  /\ writeFaults = 0
  /\ \E pool \in RiskPools, config \in RiskConfigs :
       risk = [pool |-> pool, config |-> config, calls |-> <<>>]
  /\ det = NoDetect
  /\ yld = NoYield
  /\ hold = NoHold
  /\ readFaults = 0
  /\ proxy = NoProxy
  /\ inv = NoInvest

\* calculateRiskScore(pool, config) is called, for the pool of this run or
\* for the example pool
RiskCall(pool) ==
  /\ Len(risk.calls) < MaxRiskCalls
  /\ risk' = [risk EXCEPT !.calls =
                 Append(@, [pool |-> pool, riskScore |-> calculateRiskScore(pool, risk.config)])]
  /\ UNCHANGED <<now, nextTick, started, portfolioFile, watchlistFile, cyc, feed, lastInvest,
                 sel, leftWatching, alive, db, logged, writeFaults, det, yld, hold, readFaults, proxy, inv>>

NextRisk == \E pool \in {risk.pool, ScenarioPool} : RiskCall(pool)

SpecRisk == InitRisk /\ [][NextRisk]_vars

\* ------------------------------------------- calculateYield called directly
MaxYieldCalls == 1  \* calls of calculateYield in one behaviour

YieldApys == {-5, 0, 60, 150, 250, 1000}

YieldEntryTimes == {T0 - 3 * DAY, T0 - DAY, T0 - 15 * MINUTE, T0}

YieldHolds == {0, 15 * MINUTE, DAY, 3 * DAY}

InitYield ==
  /\ now = T0
  /\ nextTick = T0
  /\ started = 0
  /\ portfolioFile = StringifyPortfolio(EmptyPortfolio)
  /\ watchlistFile = <<>>
  /\ cyc = [c \in Cycles |-> IdleCycle]
  /\ feed = FeedP1
  /\ lastInvest = NoCall
  /\ sel = NoSelect
  /\ leftWatching = {}
  /\ alive = TRUE
  /\ db = EmptyDb
  /\ logged = {}
  /\ writeFaults = 0
  /\ risk = NoRisk
  /\ det = NoDetect
  /\ \E apy \in YieldApys, t \in YieldEntryTimes :
       yld = [position |-> [entryApy |-> apy, entryTimestamp |-> t], calls |-> <<>>]
  /\ hold = NoHold
  /\ readFaults = 0
  /\ proxy = NoProxy
  /\ inv = NoInvest

\* calculateYield(position, exitData) is called for the position of this run
YieldCall(exitData) ==
  /\ Len(yld.calls) < MaxYieldCalls
  /\ yld' = [yld EXCEPT !.calls =
               Append(@, [exitData |-> exitData,
                          result |-> calculateYield(yld.position, exitData)])]
  /\ UNCHANGED <<now, nextTick, started, portfolioFile, watchlistFile, cyc, feed, lastInvest,
                 sel, leftWatching, alive, db, logged, writeFaults, risk, det, hold, readFaults,
                 proxy, inv>>

NextYield ==
  \E dt \in YieldHolds, apy \in YieldApys :
    YieldCall([timestamp |-> yld.position.entryTimestamp + dt, exitApy |-> apy])

SpecYield == InitYield /\ [][NextYield]_vars

\* ------------------------- a pool admitted by the selector and then held
\* STRATEGY_CONFIG of the intensive-farming version of config.js (part_009,
\* lines 83-104)
intensiveStrategyConfig ==
  [ minAPY |-> 30, minTVL |-> 50000, minRewardAPY |-> 15,
    minRewardAPYRatioNum |-> 3, minRewardAPYRatioDen |-> 10,          \* 0.3
    newPoolAgeDays |-> 14, highAPYThreshold |-> 300, mediumAPYThreshold |-> 60,
    lowTVLThreshold |-> 800000,
    highRewardRatioThresholdNum |-> 7, highRewardRatioThresholdDen |-> 10, \* 0.7
    tvlGrowthPctThreshold |-> 30, volatilitySigmaThreshold |-> 3,
    maxRiskScore |-> 8, maxPerToken |-> 3, maxTotal |-> 8 ]

\* the configurations that the strategy module can import as defaultConfig
StrategyConfigs == { defaultConfig, intensiveStrategyConfig }

MaxHoldChecks == 1  \* checkForExits iterations on the held position in one behaviour

HoldPools ==
  { [ Pool("h1", "NEW-USDC", "Solana", apy, tvlUsd, apyReward, exposure, T0 - HOUR)
        EXCEPT !.predictedClass = predictedClass ] :
      apy \in {60, 130}, tvlUsd \in {50000, 200000}, apyReward \in {40, 120},
      exposure \in {"single", "multi"}, predictedClass \in {Undefined, "Down"} }

InitHold ==
  /\ now = T0
  /\ nextTick = T0
  /\ started = 0
  /\ portfolioFile = StringifyPortfolio(EmptyPortfolio)
  /\ watchlistFile = <<>>
  /\ cyc = [c \in Cycles |-> IdleCycle]
  /\ feed = FeedP1
  /\ lastInvest = NoCall
  /\ sel = NoSelect
  /\ leftWatching = {}
  /\ alive = TRUE
  /\ db = EmptyDb
  /\ logged = {}
  /\ writeFaults = 0
  /\ risk = NoRisk
  /\ det = NoDetect
  /\ yld = NoYield
  /\ \E pool \in HoldPools, config \in StrategyConfigs :
       hold = [config |-> config, pool |-> pool, pos |-> Null, checks |-> <<>>]
  /\ readFaults = 0
  /\ proxy = NoProxy
  /\ inv = NoInvest

\* enrichPoolData and selectOptimalPools are applied to the detected pool
\* and the entry loop of investFromWatchlist opens a position for what the
\* selector returned (one free slot)
HoldEnter ==
  /\ hold.pos = Null
  /\ LET enriched == enrichPoolData(<<[isNew |-> TRUE] @@ hold.pool>>, hold.config)
         optimal  == selectOptimalPools(enriched, hold.config)
         active   == EnterPositions(<<>>, Slice(optimal, 1), now)
     IN  /\ active # <<>>
         /\ hold' = [hold EXCEPT !.pos = active[1]]
  /\ UNCHANGED <<now, nextTick, started, portfolioFile, watchlistFile, cyc, feed, lastInvest,
                 sel, leftWatching, alive, db, logged, writeFaults, risk, det, yld, readFaults,
                 proxy, inv>>

\* one iteration of checkForExits on the position, dt after its entry;
\* fetchPoolById resolves to the pool record served and scores it with the
\* imported configuration
HoldCheck(dt, served) ==
  /\ hold.pos # Null
  /\ Len(hold.checks) < MaxHoldChecks
  /\ LET current == [riskScore |-> calculateRiskScore(served, hold.config)] @@ served
         t       == hold.pos.entryTimestamp + dt
     IN  hold' = [hold EXCEPT !.checks =
                    Append(@, [at |-> t, current |-> current,
                               acc |-> ExitIteration([stillActive |-> <<>>, exited |-> <<>>],
                                                     hold.pos, current, t)])]
  /\ UNCHANGED <<now, nextTick, started, portfolioFile, watchlistFile, cyc, feed, lastInvest,
                 sel, leftWatching, alive, db, logged, writeFaults, risk, det, yld, readFaults,
                 proxy, inv>>

NextHold ==
  \/ HoldEnter
  \/ \E dt \in {15 * MINUTE, 12 * HOUR, DAY}, served \in {hold.pool, [hold.pool EXCEPT !.apy = 20]} :
       HoldCheck(dt, served)

SpecHold == InitHold /\ [][NextHold]_vars

\* --------------- the rebalancing and entry loops of investFromWatchlist
MaxCandidates == 2  \* pools in the list handed to selectOptimalPools

\* investFromWatchlist from line 141 on: slots is taken at line 121, optimal
\* is what selectOptimalPools returned
InvestSelected(portfolio, optimal, t) ==
  LET st == Rebalance([active |-> portfolio.active, exited |-> portfolio.exited,
                       slots |-> MAX_ACTIVE_POSITIONS - Len(portfolio.active)], optimal, t)
  IN  [active |-> EnterPositions(st.active, Slice(optimal, st.slots), t),
       exited |-> st.exited]

\* portfolios an earlier cycle left: the positions were entered an hour ago
InvestActive(apy2) ==
  << Position("p1", T0 - HOUR, 150, 3, FALSE), Position("p2", T0 - HOUR, apy2, 3, FALSE),
     Position("p3", T0 - HOUR, 150, 3, FALSE), Position("p4", T0 - HOUR, 140, 3, FALSE),
     Position("p5", T0 - HOUR, 150, 3, FALSE) >>

InvestPortfolios ==
  { [active |-> SubSeq(InvestActive(apy2), 1, n), exited |-> <<>>] :
      apy2 \in {90, 120}, n \in {0, 3, 4, MAX_ACTIVE_POSITIONS} }

\* the validated pools: a pool that is held already, two that are not, and
\* one whose record carries no pool id
InvestPools ==
  { [isNew |-> TRUE] @@ Pool(id, "NEW-USDC", "Solana", q[1], q[2], 80, "single", T0 - HOUR) :
      id \in {"p2", "p6", "p7", Undefined},
      q \in {<<100, 200000>>, <<130, 50000>>, <<250, 200000>>} }

InvestLists ==
  { l \in UNION { [1..n -> InvestPools] : n \in 0..MaxCandidates } :
      \A i, j \in DOMAIN l : i # j => l[i].pool # l[j].pool }

InitInvest ==
  /\ now = T0
  /\ nextTick = T0
  /\ started = 0
  /\ portfolioFile = StringifyPortfolio(EmptyPortfolio)
  /\ watchlistFile = <<>>
  /\ cyc = [c \in Cycles |-> IdleCycle]
  /\ feed = FeedP1
  /\ lastInvest = NoCall
  /\ sel = NoSelect
  /\ leftWatching = {}
  /\ alive = TRUE
  /\ db = EmptyDb
  /\ logged = {}
  /\ writeFaults = 0
  /\ risk = NoRisk
  /\ det = NoDetect
  /\ yld = NoYield
  /\ hold = NoHold
  /\ readFaults = 0
  /\ proxy = NoProxy
  /\ \E portfolio \in InvestPortfolios, validated \in InvestLists :
       inv = [done |-> FALSE, portfolio |-> portfolio,
              optimal |-> selectOptimalPools(
                            enrichPoolData(Slice(validated, ENRICH_TOP_N), defaultConfig),
                            defaultConfig),
              after |-> portfolio]

\* lines 141-170 of investFromWatchlist run on the portfolio and the
\* selected list of this run
InvestCall ==
  /\ ~inv.done
  /\ inv' = [inv EXCEPT !.done = TRUE,
                        !.after = InvestSelected(inv.portfolio, inv.optimal, now)]
  /\ UNCHANGED <<now, nextTick, started, portfolioFile, watchlistFile, cyc, feed, lastInvest,
                 sel, leftWatching, alive, db, logged, writeFaults, risk, det, yld, hold,
                 readFaults, proxy>>

SpecInvest == InitInvest /\ [][InvestCall]_vars

\* ------------------------------------- GET /api/coingecko/prices (part_006)
\* the async function of lines 158-201 up to its await of axios.get, and
\* pendingRequests.set of line 204: request r issues the upstream request
ProxyIssue(px, r, key) ==
  [px EXCEPT !.lastApiCall = px.clock,
             !.starts = Append(@, [key |-> key, at |-> px.clock, by |-> r]),
             !.pending[key] = r,
             !.reqs[r] = [pc |-> "fetching", key |-> key, wakeAt |-> 0, owner |-> r,
                          result |-> 0]]

\* a request for key arrives and its handler runs up to its first await
\* (lines 120-155): cache hit, wait for the pending request of the key,
\* rate-limiting wait, or the upstream request at once
ProxyArrive(r, key) ==
  /\ proxy.reqs[r].pc = "new"
  /\ \A q \in Requests : q < r => proxy.reqs[q].pc # "new"
  /\ LET t == proxy.clock
         timeSinceLastCall == t - proxy.lastApiCall
     IN  proxy' =
           IF proxy.cachedAt[key] # 0 /\ t - proxy.cachedAt[key] < CACHE_DURATION
           THEN [proxy EXCEPT !.reqs[r] = [pc |-> "done", key |-> key, wakeAt |-> 0,
                                           owner |-> 0, result |-> proxy.cachedAt[key]]]
           ELSE IF proxy.pending[key] # 0
           THEN [proxy EXCEPT !.reqs[r] = [pc |-> "shared", key |-> key, wakeAt |-> 0,
                                           owner |-> proxy.pending[key], result |-> 0]]
           ELSE IF timeSinceLastCall < API_CALL_INTERVAL
           THEN [proxy EXCEPT !.reqs[r] =
                   [pc |-> "waiting", key |-> key,
                    wakeAt |-> t + (API_CALL_INTERVAL - timeSinceLastCall),
                    owner |-> 0, result |-> 0]]
           ELSE ProxyIssue(proxy, r, key)
  /\ UNCHANGED <<now, nextTick, started, portfolioFile, watchlistFile, cyc, feed, lastInvest,
                 sel, leftWatching, alive, db, logged, writeFaults, risk, det, yld, hold,
                 readFaults, inv>>

\* the timer of line 154 fires: the handler goes on to issue the upstream
\* request
ProxyWake(r) ==
  /\ proxy.reqs[r].pc = "waiting"
  /\ proxy.clock >= proxy.reqs[r].wakeAt
  /\ proxy' = ProxyIssue(proxy, r, proxy.reqs[r].key)
  /\ UNCHANGED <<now, nextTick, started, portfolioFile, watchlistFile, cyc, feed, lastInvest,
                 sel, leftWatching, alive, db, logged, writeFaults, risk, det, yld, hold,
                 readFaults, inv>>

\* the upstream request of r settles: on success the result is cached
\* (lines 189-192); the finally block deletes the key's entry of
\* pendingRequests; r and the requests awaiting r's promise respond
ProxySettle(r, ok) ==
  /\ proxy.reqs[r].pc = "fetching"
  /\ LET key    == proxy.reqs[r].key
         issued == CHOOSE i \in 1..Len(proxy.starts) :
                     /\ proxy.starts[i].by = r
                     /\ \A j \in 1..Len(proxy.starts) : proxy.starts[j].by = r => j <= i
         result == IF ok THEN proxy.starts[issued].at ELSE -1
     IN  proxy' =
           [proxy EXCEPT
              !.cachedAt[key] = IF ok THEN proxy.clock ELSE @,
              !.pending[key] = 0,
              !.reqs = [q \in Requests |->
                          IF q = r \/ (proxy.reqs[q].pc = "shared" /\ proxy.reqs[q].owner = r)
                          THEN [proxy.reqs[q] EXCEPT !.pc = IF ok THEN "done" ELSE "failed",
                                                     !.result = result]
                          ELSE proxy.reqs[q]]]
  /\ UNCHANGED <<now, nextTick, started, portfolioFile, watchlistFile, cyc, feed, lastInvest,
                 sel, leftWatching, alive, db, logged, writeFaults, risk, det, yld, hold,
                 readFaults, inv>>

\* a step of the clock: time does not pass a timer that is due
ProxyTime(dt) ==
  /\ proxy.steps < MaxProxySteps
  /\ \A r \in Requests : proxy.reqs[r].pc = "waiting" => proxy.clock + dt <= proxy.reqs[r].wakeAt
  /\ proxy' = [proxy EXCEPT !.clock = @ + dt, !.steps = @ + 1]
  /\ UNCHANGED <<now, nextTick, started, portfolioFile, watchlistFile, cyc, feed, lastInvest,
                 sel, leftWatching, alive, db, logged, writeFaults, risk, det, yld, hold,
                 readFaults, inv>>

NextProxy ==
  \/ \E r \in Requests, key \in ProxyKeys : ProxyArrive(r, key)
  \/ \E r \in Requests : ProxyWake(r)
  \/ \E r \in Requests, ok \in BOOLEAN : ProxySettle(r, ok)
  \/ \E dt \in {1000, 4000} : ProxyTime(dt)

InitProxy ==
  /\ now = T0
  /\ nextTick = T0
  /\ started = 0
  /\ portfolioFile = StringifyPortfolio(EmptyPortfolio)
  /\ watchlistFile = <<>>
  /\ cyc = [c \in Cycles |-> IdleCycle]
  /\ feed = FeedP1
  /\ lastInvest = NoCall
  /\ sel = NoSelect
  /\ leftWatching = {}
  /\ alive = TRUE
  /\ db = EmptyDb
  /\ logged = {}
  /\ writeFaults = 0
  /\ risk = NoRisk
  /\ det = NoDetect
  /\ yld = NoYield
  /\ hold = NoHold
  /\ readFaults = 0
  /\ proxy = NoProxy
  /\ inv = NoInvest

SpecProxy == InitProxy /\ [][NextProxy]_vars

\* ----------------------------------- fetchNewIncentivePools called directly
\* The records the data source can hold for one pool: first seen never, two
\* hours ago (in the ultra-fresh window), half an hour ago, seven days ago to
\* the millisecond, eight days ago; the APY, the TVL, the reward APY and the
\* TVL growth on both sides of the thresholds of the default config; a
\* symbol with and without a keyword; a pool of another chain.
DetectPools ==
  { [ pool |-> "p9", symbol |-> symbol, chain |-> chain, apy |-> apy, tvlUsd |-> tvlUsd,
      apyReward |-> apyReward, rewardTokens |-> <<"T1">>, exposure |-> "single",
      predictedClass |-> Undefined, ilRisk |-> Undefined, sigma |-> 0,
      tvlGrowthPct1d |-> growth, firstSeenAt |-> firstSeenAt ] :
      symbol \in {"RAY-USDC", "NEW-USDC"}, chain \in {"Solana", "Ethereum"},
      apy \in {60, 81, 201}, tvlUsd \in {200000, 600000}, apyReward \in {50, 70, 170},
      growth \in {0, 50, 51},
      firstSeenAt \in {0, T0 - 2 * HOUR, T0 - 30 * MINUTE, T0 - 7 * DAY, T0 - 8 * DAY} }

InitDetect ==
  /\ now = T0
  /\ nextTick = T0
  /\ started = 0
  /\ portfolioFile = StringifyPortfolio(EmptyPortfolio)
  /\ watchlistFile = <<>>
  /\ cyc = [c \in Cycles |-> IdleCycle]
  /\ feed = FeedP1
  /\ lastInvest = NoCall
  /\ sel = NoSelect
  /\ leftWatching = {}
  /\ alive = TRUE
  /\ db = EmptyDb
  /\ logged = {}
  /\ writeFaults = 0
  /\ risk = NoRisk
  /\ \E pool \in DetectPools : det = [done |-> FALSE, input |-> <<pool>>, output |-> <<>>]
  /\ yld = NoYield
  /\ hold = NoHold
  /\ readFaults = 0
  /\ proxy = NoProxy
  /\ inv = NoInvest

\* fetchNewIncentivePools(defaultConfig) is called and its fetch resolves to
\* the list det.input
DetectCall ==
  /\ ~det.done
  /\ det' = [det EXCEPT !.done = TRUE,
                        !.output = FetchNewIncentivePools(det.input, defaultConfig, now)]
  /\ UNCHANGED <<now, nextTick, started, portfolioFile, watchlistFile, cyc, feed, lastInvest,
                 sel, leftWatching, alive, db, logged, writeFaults, risk, yld, hold, readFaults, proxy, inv>>

NextDetect == DetectCall

SpecDetect == InitDetect /\ [][NextDetect]_vars

TypeOK ==
  /\ started \in 0..MaxStarts
  /\ \A c \in Cycles : cyc[c].pc \in {"idle", "exits", "update", "invest"}

\* ------------------------------------------------------------- properties
Range(s) == { s[i] : i \in 1..Len(s) }

\* every portfolio object that exists: the one in active_portfolio.json and
\* the one each cycle in progress works on
Portfolios == {ParsePortfolio(portfolioFile)} \cup { cyc[c].portfolio : c \in InProgress }

\* C1: whatever cycles have run (exit checks, watchlist updates, investments
\* with or without rebalancing), no portfolio holds more than
\* MAX_ACTIVE_POSITIONS active positions.  The property is checked from an
\* empty portfolio and from a full one, the only start from which the limit
\* is approached.
ActiveWithinLimit ==
  \A pf \in Portfolios : Len(pf.active) <= MAX_ACTIVE_POSITIONS

\* an investFromWatchlist call has evicted a position and filled the portfolio again
FullAfterRebalance ==
  /\ lastInvest.called
  /\ Len(lastInvest.before.active) = MAX_ACTIVE_POSITIONS
  /\ Len(lastInvest.after.active) = MAX_ACTIVE_POSITIONS
  /\ \E e \in Range(lastInvest.after.exited) :
       e.exitReason = "rebalanced" /\ e.exitTimestamp = lastInvest.now
  /\ \E p \in Range(lastInvest.after.active) : p.entryTimestamp = lastInvest.now

\* C2: at most one workflowLoop invocation is in progress at any time.
AtMostOneCycleInProgress == Cardinality(InProgress) <= 1

\* C3: no portfolio ever holds two active positions with the same poolId;
\* an investFromWatchlist call whose candidate is already held adds no
\* second position for it.
NoDuplicateActivePool ==
  \A pf \in Portfolios :
    \A i, j \in 1..Len(pf.active) : i # j => pf.active[i].poolId # pf.active[j].poolId

\* an investFromWatchlist call has returned whose candidates included a pool
\* that was already held, and the pool is still held once
HeldCandidateSkipped ==
  /\ lastInvest.called
  /\ \E cand \in Range(OptimalOf(lastInvest.matured, lastInvest.allPools)) :
       /\ \E p \in Range(lastInvest.before.active) : p.poolId = cand.pool
       /\ Cardinality({ i \in 1..Len(lastInvest.after.active) :
                          lastInvest.after.active[i].poolId = cand.pool }) = 1

\* the exit conditions of a position against the current data of its pool,
\* at cycle time t
TimeHeldReached(pos, t)  == t - pos.entryTimestamp >= HOLD_DURATION_MS
DropReached(pos, current) ==
  (pos.entryApy - current.apy) * 100 >= APY_DROP_THRESHOLD * pos.entryApy
RiskExceeded(current)    == current.riskScore > MAX_RISK_SCORE

ExitedAs(pos, t, reason) ==
  [pos EXCEPT !.status = "exited", !.exitTimestamp = t, !.exitReason = reason]

\* the exit records checkForExits has added in cycle me to those it loaded
NewExits(me) == SubSeq(me.acc.exited, Len(me.before.exited) + 1, Len(me.acc.exited))

\* checkForExits has added an exit record for position pos in cycle me
ExitedIn(pos, me) == \E e \in Range(NewExits(me)) : e.poolId = pos.poolId

\* C4: in checkForExits, a position whose current pool data is available is
\* exited if and only if the time held has reached the hold duration, or the
\* APY drop has reached the drop threshold, or the current risk score
\* exceeds the risk threshold; the reason is time_exit, else apy_drop, else
\* risk_exit; and every position of the list is evaluated, whatever
\* happened to the positions before it.
ExitsFollowRule ==
  \A c \in Cycles :
    LET me == cyc[c]
    IN  /\ me.pc = "update" => Len(me.currents) = Len(me.before.active)
        /\ \A i \in 1..Len(me.currents) :
             LET pos     == me.before.active[i]
                 current == me.currents[i]
             IN  current # Null =>
                   IF TimeHeldReached(pos, me.now)
                   THEN ExitedAs(pos, me.now, "time_exit") \in Range(NewExits(me))
                        /\ pos \notin Range(me.acc.stillActive)
                   ELSE IF DropReached(pos, current)
                   THEN ExitedAs(pos, me.now, "apy_drop") \in Range(NewExits(me))
                        /\ pos \notin Range(me.acc.stillActive)
                   ELSE IF RiskExceeded(current)
                   THEN ExitedAs(pos, me.now, "risk_exit") \in Range(NewExits(me))
                        /\ pos \notin Range(me.acc.stillActive)
                   ELSE pos \in Range(me.acc.stillActive) /\ ~ExitedIn(pos, me)

\* checkForExits has gone through a whole portfolio in which a position
\* was exited for risk alone, and the position after it was evaluated too
RiskExitThenOthersEvaluated ==
  \E c \in Cycles :
    /\ cyc[c].pc = "update"
    /\ Len(cyc[c].before.active) = MAX_ACTIVE_POSITIONS
    /\ Len(cyc[c].currents) = MAX_ACTIVE_POSITIONS
    /\ \E i \in 1..(MAX_ACTIVE_POSITIONS - 1) :
         /\ cyc[c].currents[i] # Null
         /\ ~TimeHeldReached(cyc[c].before.active[i], cyc[c].now)
         /\ ~DropReached(cyc[c].before.active[i], cyc[c].currents[i])
         /\ RiskExceeded(cyc[c].currents[i])
         /\ ExitedAs(cyc[c].before.active[i], cyc[c].now, "risk_exit")
              \in Range(cyc[c].portfolio.exited)
    /\ Len(cyc[c].portfolio.active) = MAX_ACTIVE_POSITIONS - 1

\* C5: in checkForExits, a position whose current pool data is unavailable
\* (fetchPoolById resolved to null) stays active with every field
\* unchanged, even when its hold duration has elapsed: it is in
\* stillActive, no exit record is written for it, and it is in
\* portfolio.active when checkForExits returns.
MissingDataKeepsPosition ==
  \A c \in Cycles :
    \A i \in 1..Len(cyc[c].currents) :
      cyc[c].currents[i] = Null =>
        /\ cyc[c].before.active[i] \in Range(cyc[c].acc.stillActive)
        /\ ~ExitedIn(cyc[c].before.active[i], cyc[c])
        /\ cyc[c].pc = "update" => cyc[c].before.active[i] \in Range(cyc[c].portfolio.active)

\* checkForExits has finished, and a position overdue for its time exit is
\* still active because its pool data was unavailable
OverduePositionKept ==
  \E c \in Cycles :
    /\ cyc[c].pc = "update"
    /\ \E i \in 1..Len(cyc[c].currents) :
         /\ cyc[c].currents[i] = Null
         /\ TimeHeldReached(cyc[c].before.active[i], cyc[c].now)
         /\ cyc[c].before.active[i] \in Range(cyc[c].portfolio.active)

\* the positions an investFromWatchlist call opened
Opened == Range(lastInvest.after.active) \ Range(lastInvest.before.active)

\* the candidates selected in the investFromWatchlist call
Selected == Range(OptimalOf(lastInvest.matured, lastInvest.allPools))

\* C6: when the portfolio holds MAX_ACTIVE_POSITIONS positions and a selected
\* candidate's APY exceeds the lowest entryApy among them by more than 20
\* points, investFromWatchlist exits that position as 'rebalanced' and
\* opens exactly one new position, so the portfolio is full again when the
\* call returns.
RebalanceRefillsPortfolio ==
  lastInvest.called /\ Len(lastInvest.before.active) = MAX_ACTIVE_POSITIONS =>
    \A worst \in Range(lastInvest.before.active) :
      /\ \A p \in Range(lastInvest.before.active) : worst.entryApy <= p.entryApy
      /\ \E cand \in Selected : cand.apy > worst.entryApy + REBALANCE_MARGIN
      => /\ ExitedAs(worst, lastInvest.now, "rebalanced") \in Range(lastInvest.after.exited)
         /\ worst \notin Range(lastInvest.after.active)
         /\ Cardinality(Opened) = 1
         /\ Len(lastInvest.after.active) = MAX_ACTIVE_POSITIONS

\* the validation floors on a pool record, as section 121-160 of the
\* strategy module states them
MeetsFloors(rec) ==
  /\ rec.chain = "Solana"
  /\ rec.apy >= 50
  /\ rec.tvlUsd >= 100000
  /\ rec.apyReward >= 20
  /\ 2 * rec.apyReward >= Max(rec.apy, 1)

\* C7: with an empty portfolio and exactly one matured watchlist entry whose
\* pool is in the fetched list, passes every floor and has a risk score of
\* at most maxRiskScore, investFromWatchlist leaves exactly one active
\* position, for that pool.
SingleMaturedPoolInvested ==
  /\ lastInvest.called
  /\ lastInvest.before.active = <<>>
  /\ Len(lastInvest.matured) = 1
  /\ \E rec \in Range(lastInvest.allPools) :
       /\ rec.pool = lastInvest.matured[1].poolId
       /\ MeetsFloors(rec)
       /\ calculateRiskScore(rec, defaultConfig) <= MAX_RISK_SCORE
  => /\ Len(lastInvest.after.active) = 1
     /\ lastInvest.after.active[1].poolId = lastInvest.matured[1].poolId

\* C8: no position is opened for a pool before MIN_WATCHLIST_AGE_MS have
\* passed since the cycle that inserted the pool into the watchlist; so a
\* pool that updateWatchlist inserted in a cycle gets no position from
\* investFromWatchlist in that cycle.
NoInvestmentInInsertionCycle ==
  lastInvest.called => \A p \in Opened : p.poolId \notin lastInvest.inserted

\* C9: every position investFromWatchlist opens is for a pool that the list
\* fetched in that call holds on the target chain and above the minAPY,
\* minTVL, minRewardAPY and minRewardAPYRatio floors; a matured entry whose
\* pool the list lacks, or holds below a floor, gets no position (and the
\* call returns normally).
PositionsOnlyForValidatedPools ==
  lastInvest.called =>
    /\ \A p \in Opened :
         \E rec \in Range(lastInvest.allPools) :
           rec.pool = p.poolId /\ rec.apy = p.entryApy /\ MeetsFloors(rec)
    /\ \A m \in Range(lastInvest.matured) :
         ~(\E rec \in Range(lastInvest.allPools) : rec.pool = m.poolId /\ MeetsFloors(rec))
           => ~(\E p \in Opened : p.poolId = m.poolId)

\* an investFromWatchlist call has opened a position for a pool of the list
\* it fetched
ValidatedPoolEntered ==
  /\ lastInvest.called
  /\ \E p \in Opened :
       \E rec \in Range(lastInvest.allPools) : rec.pool = p.poolId /\ MeetsFloors(rec)

\* the pools of a list whose first reward token is tok ('none' without one)
WithToken(pools, tok) ==
  { i \in 1..Len(pools) :
      (IF pools[i].rewardTokens = <<>> THEN "none" ELSE pools[i].rewardTokens[1]) = tok }

\* C10: for every input list and every config whose limits are natural
\* numbers, selectOptimalPools returns at most maxPerToken pools with the
\* same first reward token (pools without reward tokens forming the one
\* group 'none') and at most maxTotal pools.
SelectionWithinLimits ==
  sel.done =>
    /\ Len(sel.output) <= sel.config.maxTotal
    /\ \A tok \in {"none", "A", "B"} :
         Cardinality(WithToken(sel.output, tok)) <= sel.config.maxPerToken

\* selectOptimalPools has returned from an input in which more acceptable
\* pools share a token than maxPerToken admits, and more pools are
\* acceptable than maxTotal admits
LimitsBind ==
  /\ sel.done
  /\ sel.config.maxPerToken > 0
  /\ Len(sel.output) = sel.config.maxTotal
  /\ \E tok \in {"none", "A"} :
       /\ Cardinality({ i \in WithToken(sel.input, tok) : sel.input[i].riskScore <= 7 })
            > sel.config.maxPerToken
       /\ Cardinality(WithToken(sel.output, tok)) = sel.config.maxPerToken

\* the pools of the input that pass the risk filter, by position
Admissible == { i \in 1..Len(sel.input) : sel.input[i].riskScore <= sel.config.maxRiskScore }

SameGroup(i, j) ==
  (IF sel.input[i].rewardTokens = <<>> THEN "none" ELSE sel.input[i].rewardTokens[1])
    = (IF sel.input[j].rewardTokens = <<>> THEN "none" ELSE sel.input[j].rewardTokens[1])

\* the admissible pools that are among the maxPerToken highest-profitPotential
\* pools of their reward-token group (of equals, the earlier in the input first)
Survivors ==
  { i \in Admissible :
      Cardinality({ j \in Admissible :
                      /\ SameGroup(i, j)
                      /\ \/ sel.input[j].profitPotential > sel.input[i].profitPotential
                         \/ (sel.input[j].profitPotential = sel.input[i].profitPotential /\ j < i) })
        < sel.config.maxPerToken }

\* C11: selectOptimalPools returns only input pools with riskScore <=
\* maxRiskScore, in non-increasing profitPotential order, and what it returns
\* is the reference selection: the maxPerToken highest-profitPotential pools
\* of each reward-token group among the risk-admissible pools, merged, of
\* which the maxTotal highest-profitPotential ones are kept.
SelectionMatchesReference ==
  sel.done =>
    /\ \A k \in 1..Len(sel.output) :
         sel.output[k] \in Range(sel.input)
           /\ sel.output[k].riskScore <= sel.config.maxRiskScore
    /\ \A k \in 1..(Len(sel.output) - 1) :
         sel.output[k].profitPotential >= sel.output[k + 1].profitPotential
    /\ Len(sel.output) = Min(sel.config.maxTotal, Cardinality(Survivors))
    /\ \E f \in [1..Len(sel.output) -> Survivors] :
         /\ \A k, l \in 1..Len(sel.output) : k # l => f[k] # f[l]
         /\ \A k \in 1..Len(sel.output) : sel.input[f[k]] = sel.output[k]
         /\ \A s \in Survivors \ { f[k] : k \in 1..Len(sel.output) } :
              \A k \in 1..Len(sel.output) :
                sel.input[s].profitPotential <= sel.output[k].profitPotential

\* selectOptimalPools has returned a non-empty selection from an input of
\* which the risk filter dropped a pool and the per-token limit another
RiskAndTokenLimitDropPools ==
  /\ sel.done
  /\ sel.output # <<>>
  /\ Admissible # 1..Len(sel.input)
  /\ Survivors # Admissible

\* C12: after updateWatchlist has returned, and in the watchlist saved at the
\* end of that cycle, no entry is older than WATCHLIST_MAX_AGE_MS (7 days),
\* the age being taken at the time of that call (entries of watchlist.json
\* carry no status: all of them are being watched).
NoStaleWatchingEntry ==
  /\ \A c \in Cycles :
       cyc[c].pc = "invest" =>
         \A e \in Range(cyc[c].watchlist) : cyc[c].now - e.firstSeen <= WATCHLIST_MAX_AGE_MS
  /\ lastInvest.called =>
       \A e \in Range(ParseWatchlist(watchlistFile)) :
         lastInvest.now - e.firstSeen <= WATCHLIST_MAX_AGE_MS

\* a cycle has saved a watchlist from which updateWatchlist removed an entry
\* that had reached the maximum age, keeping a younger one
StaleEntryPruned ==
  /\ lastInvest.called
  /\ watchlistFile # <<>>
  /\ \E id \in leftWatching :
       \A e \in Range(ParseWatchlist(watchlistFile)) : e.poolId # id

\* C13: a step never leaves two entries with the same poolId in
\* watchlist.json and never changes the firstSeen of an entry that is in it.
WatchlistEntriesKept ==
  [][ /\ \A i, j \in 1..Len(watchlistFile') :
           i # j => watchlistFile'[i].poolId # watchlistFile'[j].poolId
      /\ \A e \in Range(watchlistFile) : \A f \in Range(watchlistFile') :
           e.poolId = f.poolId => e.firstSeen = f.firstSeen ]_vars

\* C14: a pool whose entry updateWatchlist has pruned is in no watchlist
\* saved afterwards (watchlist.json has no status field: an entry that is
\* in the file is being watched).
PrunedPoolStaysOut ==
  lastInvest.called =>
    \A e \in Range(ParseWatchlist(watchlistFile)) : e.poolId \notin leftWatching

\* every position record that exists: those of the portfolios and the rows
\* of the Position table
ExitedRecords ==
  UNION { Range(pf.exited) : pf \in Portfolios }
    \cup { r \in Range(db.positions) : r.status = "exited" }

\* C15: every exited position, whether checkForExits, the rebalancing or a
\* manual exit through the API exited it, has exitTimestamp >= entryTimestamp.
ExitNotBeforeEntry ==
  \A e \in ExitedRecords : e.exitTimestamp >= e.entryTimestamp

\* the portfolio holds a position that rebalancing or checkForExits exited
\* after its entry, and the table a row that a manual exit closed some time
\* after its creation
ExitedOnEveryPath ==
  /\ \E e \in Range(ParsePortfolio(portfolioFile).exited) :
       e.exitReason \in {"rebalanced", "apy_drop"} /\ e.exitTimestamp > e.entryTimestamp
  /\ \E r \in Range(db.positions) :
       r.status = "exited" /\ r.exitReason = "manual" /\ r.exitTimestamp > r.entryTimestamp

\* C16: every exited position, by whatever path it was exited, has an
\* exitReason, and it is one of time_exit, apy_drop, risk_exit, rebalanced,
\* manual.
ExitReasonsKnown ==
  \A e \in ExitedRecords :
    e.exitReason \in {"time_exit", "apy_drop", "risk_exit", "rebalanced", "manual"}

\* C17: an exited position is a terminal record: no step changes or removes
\* an exit record of active_portfolio.json or an exited row of the Position
\* table (re-entering the pool adds a record and leaves it as it was).
ExitedRecordsKept ==
  [][ /\ \A e \in Range(portfolioFile.exited) : e \in Range(portfolioFile'.exited)
      /\ \A i \in 1..Len(db.positions) :
           db.positions[i].status = "exited" =>
             i <= Len(db'.positions) /\ db'.positions[i] = db.positions[i] ]_vars

\* the exit APYs that a realized yield of exit record e can be computed
\* from: the APY of its pool in the fetched list, or the entry APY when the
\* list lacks the pool
ExitApys(e, allPools) ==
  IF \E rec \in Range(allPools) : rec.pool = e.poolId
  THEN { rec.apy : rec \in { r \in Range(allPools) : r.pool = e.poolId } }
  ELSE { e.entryApy }

\* C18: the exit record that checkForExits or the rebalancing writes carries
\* a profitLoss equal to the totalReturn calculateYield gives for the
\* position's entry APY, the pool's APY at exit and the time held.
ExitsCarryRealizedYield ==
  /\ \A c \in Cycles : \A i \in 1..Len(cyc[c].currents) :
       cyc[c].currents[i] # Null =>
         \A e \in Range(NewExits(cyc[c])) :
           e.poolId = cyc[c].before.active[i].poolId =>
             /\ "profitLoss" \in DOMAIN e
             /\ e.profitLoss =
                  calculateYield(cyc[c].before.active[i],
                                 [timestamp |-> cyc[c].now,
                                  exitApy |-> cyc[c].currents[i].apy]).totalReturn
  /\ lastInvest.called =>
       \A e \in Range(lastInvest.after.exited) \ Range(lastInvest.before.exited) :
         /\ "profitLoss" \in DOMAIN e
         /\ \E apy \in ExitApys(e, lastInvest.allPools) :
              e.profitLoss =
                calculateYield(e, [timestamp |-> lastInvest.now, exitApy |-> apy]).totalReturn

\* checkForExits has gone through every loaded position and has replaced
\* portfolio.active before updateWatchlist and investFromWatchlist run
ExitsDoneBeforeUpdate ==
  \A c \in Cycles :
    cyc[c].pc = "update" =>
      /\ Len(cyc[c].currents) = Len(cyc[c].before.active)
      /\ cyc[c].portfolio.active = cyc[c].acc.stillActive

\* investFromWatchlist counts its free slots on the portfolio that
\* checkForExits left
SlotsCountExits ==
  \A c \in Cycles :
    cyc[c].pc = "invest" => cyc[c].slots = MAX_ACTIVE_POSITIONS - Len(cyc[c].portfolio.active)

\* C19: in every cycle checkForExits finishes before investFromWatchlist
\* starts, the slots that the cycle's exits freed count as free in its
\* investment step, and the two files are written only in the step in which
\* investFromWatchlist returns, the portfolio file holding what it left.
ExitsThenInvestThenSave ==
  [][ /\ ExitsDoneBeforeUpdate'
      /\ SlotsCountExits'
      /\ \A c \in Cycles : cyc'[c].pc = "invest" /\ cyc[c].pc # "invest" => cyc[c].pc = "update"
      /\ portfolioFile' # portfolioFile \/ watchlistFile' # watchlistFile =>
           lastInvest'.called /\ portfolioFile' = StringifyPortfolio(lastInvest'.after) ]_vars

\* the most recent cycle has exited a position in checkForExits and, without
\* rebalancing, has opened a position in the slot this freed
FreedSlotUsedInSameCycle ==
  /\ lastInvest.called
  /\ Len(lastInvest.before.active) = MAX_ACTIVE_POSITIONS - 1
  /\ Len(lastInvest.after.active) = MAX_ACTIVE_POSITIONS
  /\ lastInvest.after.exited = lastInvest.before.exited
  /\ \E e \in Range(lastInvest.before.exited) :
       e.exitTimestamp = nextTick - RUN_INTERVAL_MS /\ e.exitReason # "rebalanced"

\* C20: a cycle whose pool-data fetch is rejected still ends the way every
\* cycle ends, with investFromWatchlist left and the two files saved, and the
\* process stays up for the ticks that follow.
FailedFetchStillPersists ==
  [][ \A c \in Cycles :
        cyc[c].pc # "idle" /\ cyc'[c].pc = "idle" => lastInvest'.called /\ alive' ]_vars

\* C21: every cycle that has started reaches the end of workflowLoop, also
\* when the data source does not answer.
EveryCycleFinishes ==
  \A c \in Cycles : (cyc[c].pc # "idle") ~> (cyc[c].pc = "idle")

\* the entries of the last step that report a failed write
SaveErrors == { e \in logged : e.level = "error" /\ e.message = "Failed to save" }

\* C22: a step in which a write of a state file fails logs one error entry
\* for each failed write, ends the cycle in the regular way (the closing
\* line of workflowLoop is logged, no other cycle is touched), and leaves the
\* process and its timer as they were.
FailedWriteIsLoggedOnly ==
  [][ writeFaults' # writeFaults =>
        /\ Cardinality(SaveErrors') = writeFaults - writeFaults'
        /\ \A e \in SaveErrors' : e.about \in {PORTFOLIO_FILE, WATCHLIST_FILE}
        /\ LogEntry("info", "Cycle Complete", NoSubject) \in logged'
        /\ \E c \in Cycles : cyc[c].pc # "idle" /\ cyc' = [cyc EXCEPT ![c] = IdleCycle]
        /\ alive' /\ nextTick' = nextTick /\ started' = started ]_vars

\* a write has failed, the cycle it belonged to has ended, and the timer has
\* just started the next cycle
NextCycleStartedAfterFailedWrite ==
  /\ writeFaults < MaxWriteFailures
  /\ started = 2
  /\ cyc[1].pc = "idle" /\ cyc[2].pc # "idle"
  /\ LogEntry("info", "Workflow Cycle", NoSubject) \in logged

\* C23: a request to the API server (any step on the database that is not a
\* run of the migration script) leaves the watchlist rows as they are, and
\* changes a position row only by exiting an active one.
ApiChangesOnlyByManualExit ==
  [][ db'.migrations = db.migrations =>
        /\ db'.watchlist = db.watchlist
        /\ Len(db'.positions) = Len(db.positions)
        /\ \A i \in 1..Len(db.positions) :
             db'.positions[i] # db.positions[i] =>
               db.positions[i].status = "active" /\ db'.positions[i].status = "exited" ]_vars

JsRatioExceeds(n, d, tn, td) ==
  IF d > 0 THEN n * td > tn * d
  ELSE IF d = 0 THEN n > 0
  ELSE n * td < tn * d

\* the points of the scoring rule, by signal
RiskWeights ==
  [ highApy |-> 3, lowTvl |-> 2, highRewardRatio |-> 2, notSingle |-> 1,
    downPrediction |-> 2, ilRisk |-> 1, highSigma |-> 1 ]

\* the signals of the scoring rule other than the reward ratio
PlainSignals(pool, config) ==
  { x \in {"highApy", "lowTvl", "notSingle", "downPrediction", "ilRisk", "highSigma"} :
      CASE x = "highApy"        -> Has(pool, "apy") /\ pool.apy > 100
        [] x = "lowTvl"         -> Has(pool, "tvlUsd") /\ pool.tvlUsd < 100000
        [] x = "notSingle"      -> ~(Has(pool, "exposure") /\ pool.exposure = "single")
        [] x = "downPrediction" -> Has(pool, "predictedClass") /\ pool.predictedClass = "Down"
        [] x = "ilRisk"         -> Has(pool, "ilRisk") /\ pool.ilRisk = "yes"
        [] x = "highSigma"      -> /\ Has(pool, "sigma") /\ Has(config, "volatilitySigmaThreshold")
                                   /\ pool.sigma > config.volatilitySigmaThreshold }

\* the reward-ratio signal with the ratio rewardAPY / APY
RatioSignalPlain(pool, config) ==
  /\ Has(pool, "apy") /\ Has(pool, "apyReward") /\ Has(config, "highRewardRatioThresholdNum")
  /\ JsRatioExceeds(pool.apyReward, pool.apy,
                    config.highRewardRatioThresholdNum, config.highRewardRatioThresholdDen)

\* the reward-ratio signal with the ratio rewardAPY / max(APY, 1), a
\* missing rewardAPY counting as 0
RatioSignalGuarded(pool, config) ==
  /\ Has(pool, "apy") /\ Has(config, "highRewardRatioThresholdNum")
  /\ JsRatioExceeds(IF Has(pool, "apyReward") THEN pool.apyReward ELSE 0,
                    IF pool.apy > 1 THEN pool.apy ELSE 1,
                    config.highRewardRatioThresholdNum, config.highRewardRatioThresholdDen)

RECURSIVE SumWeights(_)
SumWeights(signals) ==
  IF signals = {} THEN 0
  ELSE LET x == CHOOSE y \in signals : TRUE
       IN  RiskWeights[x] + SumWeights(signals \ {x})

RuleScore(pool, config, ratioSignal) ==
  LET S == SumWeights(PlainSignals(pool, config)
                        \cup (IF ratioSignal THEN {"highRewardRatio"} ELSE {}))
  IN  IF S < 10 THEN S ELSE 10

\* C25 as stated: every score is min(10, S) with the reward-ratio signal
\* taken on rewardAPY / APY.
ScoreIsSumWithPlainRatio ==
  \A k \in 1..Len(risk.calls) :
    risk.calls[k].riskScore
      = RuleScore(risk.calls[k].pool, risk.config, RatioSignalPlain(risk.calls[k].pool, risk.config))

\* C25, amended: every score is min(10, S), where S adds 3 if APY > 100, 2
\* if TVL < 100000, 2 if rewardAPY / max(APY, 1) exceeds
\* highRewardRatioThreshold (a missing rewardAPY counting as 0), 1 if exposure
\* is not single-asset, 2 if the down-prediction flag is set, 1 if the
\* impermanent-loss flag is set, and 1 if sigma exceeds
\* volatilitySigmaThreshold.
ScoreIsSumWithGuardedRatio ==
  \A k \in 1..Len(risk.calls) :
    risk.calls[k].riskScore
      = RuleScore(risk.calls[k].pool, risk.config, RatioSignalGuarded(risk.calls[k].pool, risk.config))

\* a pool with an APY below 1 has been scored, and the two ratios fall on
\* different sides of the threshold
LowApyPoolScored ==
  \E k \in 1..Len(risk.calls) :
    /\ Has(risk.calls[k].pool, "apy") /\ risk.calls[k].pool.apy < 1
    /\ RatioSignalGuarded(risk.calls[k].pool, risk.config)
    /\ ~RatioSignalPlain(risk.calls[k].pool, risk.config)

\* the calls that score the example pool with the default config
ScenarioCalls ==
  { k \in 1..Len(risk.calls) : risk.calls[k].pool = ScenarioPool /\ risk.config = defaultConfig }

SixSignals(pool) ==
  { x \in 1..6 :
      CASE x = 1 -> pool.firstSeenAt # 0 /\ now - pool.firstSeenAt < 7 * DAY
        [] x = 2 -> pool.apy > 200
        [] x = 3 -> pool.tvlUsd < 500000 /\ pool.apy > 80
        [] x = 4 -> 5 * pool.apyReward > 4 * pool.apy /\ pool.apy > 80
        [] x = 5 -> pool.tvlGrowthPct1d > 50
        [] x = 6 -> pool.symbol = "NEW-USDC" }

InvestExits ==
  IF lastInvest.called
  THEN (Len(lastInvest.before.exited) + 1)..Len(lastInvest.after.exited)
  ELSE {}

\* the positions that were active when the call appended exit record i:
\* those it found, less the pools of the records it had appended before
ActiveWhenEvicted(i) ==
  { p \in Range(lastInvest.before.active) :
      \A j \in InvestExits : j < i => lastInvest.after.exited[j].poolId # p.poolId }

\* C28: every position that investFromWatchlist exits as 'rebalanced' was,
\* at that moment, one of a full set of active positions, had the lowest
\* entryApy among them, and a selected candidate's APY exceeded that
\* entryApy by more than 20.
RebalancedOnlyWhenOutbid ==
  \A i \in InvestExits :
    LET e == lastInvest.after.exited[i]
    IN  e.exitReason = "rebalanced" =>
          /\ Cardinality(ActiveWhenEvicted(i)) >= MAX_ACTIVE_POSITIONS
          /\ \E w \in ActiveWhenEvicted(i) :
               /\ e = ExitedAs(w, lastInvest.now, "rebalanced")
               /\ \A p \in ActiveWhenEvicted(i) : w.entryApy <= p.entryApy
               /\ \E cand \in Selected : cand.apy > w.entryApy + 20

\* an investFromWatchlist call has exited the weakest of five positions as
\* 'rebalanced', and positions with a higher entryApy stay active
WeakestPositionRebalanced ==
  \E i \in InvestExits :
    /\ lastInvest.after.exited[i].exitReason = "rebalanced"
    /\ \E p \in Range(lastInvest.after.active) :
         p.entryApy > lastInvest.after.exited[i].entryApy /\ p.entryTimestamp < lastInvest.now

\* C29: a step of checkForExits that keeps a position because fetchPoolById
\* found no data for its pool logs a warning about that position.
MissingDataIsWarned ==
  [][ \A c \in Cycles :
        /\ cyc[c].pc = "exits"
        /\ Len(cyc'[c].currents) = Len(cyc[c].currents) + 1
        /\ cyc'[c].currents[Len(cyc'[c].currents)] = Null
        => \E e \in logged' :
             /\ e.level = "warn"
             /\ e.about = cyc[c].portfolio.active[Len(cyc[c].currents) + 1].poolId ]_vars

\* C30: calculateYield called for a position with exit data whose timestamp
\* is the position's entryTimestamp and whose exitApy is its entryApy returns
\* holdDays 0 and totalReturn 0, whatever the entryApy.
ImmediateExitYieldsNothing ==
  \A k \in 1..Len(yld.calls) :
    /\ yld.calls[k].exitData.timestamp = yld.position.entryTimestamp
    /\ yld.calls[k].exitData.exitApy = yld.position.entryApy
    => /\ yld.calls[k].result.holdDays = 0
       /\ yld.calls[k].result.totalReturn = 0

\* calculateYield has been called with the entry data of a position that
\* entered at an APY of 1000 three days ago
ImmediateExitAtHighApy ==
  /\ Len(yld.calls) > 0
  /\ yld.position = [entryApy |-> 1000, entryTimestamp |-> T0 - 3 * DAY]
  /\ yld.calls[1].exitData = [timestamp |-> T0 - 3 * DAY, exitApy |-> 1000]

\* C31: a position whose pool still has the APY and the risk score it was
\* entered with is kept by checkForExits as long as its hold duration has
\* not elapsed.
UnchangedPoolIsHeld ==
  \A k \in 1..Len(hold.checks) :
    /\ hold.checks[k].current.apy = hold.pos.entryApy
    /\ hold.checks[k].current.riskScore = hold.pos.entryRisk
    /\ hold.checks[k].at - hold.pos.entryTimestamp < HOLD_DURATION_MS
    => hold.checks[k].acc.stillActive = <<hold.pos>>

\* the exit records and the positions that the direct call added
CallExits == SubSeq(inv.after.exited, Len(inv.portfolio.exited) + 1, Len(inv.after.exited))

CallEntries ==
  { p \in Range(inv.after.active) : p \notin Range(inv.portfolio.active) }

AfterRebalance ==
  Rebalance([active |-> inv.portfolio.active, exited |-> inv.portfolio.exited,
             slots |-> MAX_ACTIVE_POSITIONS - Len(inv.portfolio.active)], inv.optimal, now)

\* the selected pools for which no position is held when the entry loop starts
NotHeld ==
  { i \in 1..Len(inv.optimal) :
      \A p \in Range(AfterRebalance.active) : p.poolId # inv.optimal[i].pool }

AtMostOneRebalancedExit ==
  inv.done =>
    Cardinality({ i \in 1..Len(CallExits) : CallExits[i].exitReason = "rebalanced" }) <= 1

\* the call has run on a full portfolio with two selected pools whose APY
\* is more than 20 points above the lowest entryApy, and has evicted one
\* position
OneEvictionForTwoBetterPools ==
  /\ inv.done
  /\ Len(inv.portfolio.active) = MAX_ACTIVE_POSITIONS
  /\ Len(inv.optimal) = 2
  /\ \A i \in 1..2 : inv.optimal[i].apy > 90 + REBALANCE_MARGIN
  /\ inv.portfolio.active[2].entryApy = 90
  /\ Len(CallExits) = 1
  /\ CallExits[1].poolId = "p2" /\ CallExits[1].exitReason = "rebalanced"

\* the positions in a portfolio file, each identified by its pool and the
\* time of its entry
FilePositions(file) ==
  { <<q.poolId, q.entryTimestamp>> : q \in Range(file.active) \cup Range(file.exited) }

\* C33: a position that is in the portfolio file is, as active or as exited,
\* in every portfolio file written later, also when cycles overlap.
WrittenPositionsStay ==
  [][ FilePositions(portfolioFile) \subseteq FilePositions(portfolioFile') ]_vars

\* C35: a cycle whose load of the portfolio file failed does not overwrite
\* the file with a portfolio that lacks positions the file held.
FailedLoadKeepsFile ==
  [][ \A c \in Cycles :
        /\ cyc[c].loadFailed /\ cyc[c].pc # "idle" /\ cyc'[c].pc = "idle"
        /\ portfolioFile' # portfolioFile
        => FilePositions(portfolioFile) \subseteq FilePositions(portfolioFile') ]_vars

\* the requests whose upstream CoinGecko request for key is in flight
InFlight(key) == { r \in Requests : proxy.reqs[r].pc = "fetching" /\ proxy.reqs[r].key = key }

\* C37: at most one upstream request per cache key is in flight, and a
\* request for a key arriving while one is in flight waits for it and
\* responds with its result.
OneUpstreamRequestPerKey ==
  /\ \A key \in ProxyKeys : Cardinality(InFlight(key)) <= 1
  /\ \A r \in Requests :
       proxy.reqs[r].pc = "done" /\ proxy.reqs[r].owner # 0 =>
         proxy.reqs[r].result = proxy.reqs[proxy.reqs[r].owner].result

\* C38: any two upstream requests start at least API_CALL_INTERVAL apart.
UpstreamRequestsSpaced ==
  \A i, j \in 1..Len(proxy.starts) :
    i < j => proxy.starts[j].at - proxy.starts[i].at >= API_CALL_INTERVAL

\* C39: after the migration script has run on an empty database without a
\* failed insert, the active rows of the Position table correspond one to
\* one to the active positions of the JSON portfolio, also when a pool is
\* among the exited positions as well.
MigrationKeepsActivePositions ==
  db.migrations = 1 =>
    \A poolId \in {"p1", "p2"} :
      Cardinality({ i \in 1..Len(db.positions) :
                      db.positions[i].poolId = poolId /\ db.positions[i].status = "active" })
        = Cardinality({ i \in 1..Len(portfolioFile.active) :
                          portfolioFile.active[i].poolId = poolId })

====
